---- MODULE Spec2Model ----
(***************************************************************************)
(* Model of src/game_env.py: the two Othello rule engines StateEnv (dense  *)
(* grid of uint8 cells) and StateEnvBitBoard (pair of 64-bit masks), the   *)
(* StateConverter between their encodings, and the loop of Game.play.      *)
(*                                                                         *)
(* A Python integer is modelled as the set of positions of its 1 bits      *)
(* (bit i has weight 2^i): TLC's integers are 32 bits wide and cannot hold *)
(* a 64-bit mask.  & is \cap, | is \cup, << and >> move every position, +  *)
(* and - are binary addition and subtraction with carry and borrow.  A     *)
(* loop over the 64 cells is written as a sum over halves of the range,    *)
(* which keeps the evaluation shallow.  A decimal                          *)
(* literal of the source is written as its eight bytes, most significant   *)
(* first, i.e. as the eight rows of the board from row 0 to row 7.         *)
(*                                                                         *)
(* A local variable of the source that is assigned once and read several   *)
(* times is written CHOOSE r \in {f(x) : x \in {value}} : TRUE: x names    *)
(* the value, which is then computed once, and the CHOOSE returns f(x).    *)
(***************************************************************************)
EXTENDS Integers, Sequences, FiniteSets, TLC

(***************************************************************************)
(* Bounds of the model.                                                    *)
(***************************************************************************)
\* number of opening plies on which an agent may return any legal cell;
\* from then on it follows its fixed policy
FreeMoves == 1
\* the constructors are called with every board_size of -MaxBoardSize..MaxBoardSize
MaxBoardSize == 25
\* step is called with a cell outside the legal-move set in the states with
\* at most MaxPliesBefore transitions in the history
MaxPliesBefore == 1
\* the largest number of cells in a set handed to a shift
MaxShiftCells == 2

(***************************************************************************)
(* Python integers as bit sets.                                            *)
(***************************************************************************)
\* self._size of StateEnvBitBoard and the default board_size of the others
Size == 8

\* number of bit positions kept for an intermediate value: a mask shifted
\* left by at most 9 has its highest bit at 63 + 9
Width == 73

Pow2(k) == IF k = 0 THEN 1
           ELSE IF k = 1 THEN 2
           ELSE IF k = 2 THEN 4
           ELSE IF k = 3 THEN 8
           ELSE IF k = 4 THEN 16
           ELSE IF k = 5 THEN 32
           ELSE IF k = 6 THEN 64
           ELSE 128

\* the 1 bits of a small non-negative integer
BitsOf(v) == {i \in 0..7 : (v \div Pow2(i)) % 2 = 1}

\* the integer whose bytes, most significant first, are bytes[1..8]
FromBytes(bytes) ==
    UNION {{8 * (8 - k) + i : i \in BitsOf(bytes[k])} : k \in 1..8}

Shl(x, k) == {i + k : i \in x}
Shr(x, k) == {i - k : i \in {j \in x : j >= k}}

\* the carry into bit i of x + y: some lower bit j generates a carry (both
\* bits 1) and every bit between j and i passes it on (at least one bit 1)
CarryInto(x, y, i) ==
    \E j \in 0..(i - 1) :
        /\ j \in x /\ j \in y
        /\ \A k \in (j + 1)..(i - 1) : k \in x \/ k \in y

\* x + y, kept up to bit Width - 1; without a common 1 bit nothing carries
Plus(x, y) ==
    IF x \cap y = {} THEN x \cup y
    ELSE {i \in 0..(Width - 1) : ((i \in x) # (i \in y)) # CarryInto(x, y, i)}

\* the borrow into bit i of x - y: some lower bit j takes a borrow (0 minus
\* 1) and no bit between j and i absorbs it (1 minus 0)
BorrowInto(x, y, i) ==
    \E j \in 0..(i - 1) :
        /\ j \notin x /\ j \in y
        /\ \A k \in (j + 1)..(i - 1) : ~(k \in x /\ k \notin y)

\* x - y; a negative result keeps the 1 bits of its two's complement up to
\* position Width - 1; when every 1 bit of y is a 1 bit of x nothing borrows
Minus(x, y) ==
    IF y \subseteq x THEN x \ y
    ELSE {i \in 0..(Width - 1) : ((i \in x) # (i \in y)) # BorrowInto(x, y, i)}

(***************************************************************************)
(* Integer literals of StateEnvBitBoard.                                   *)
(***************************************************************************)
\* 0xFFFFFFFFFFFFFFFF
K_max == FromBytes(<<255, 255, 255, 255, 255, 255, 255, 255>>)
\* 18374403900871474942 = 0xFEFEFEFEFEFEFEFE
K18374403900871474942 == FromBytes(<<254, 254, 254, 254, 254, 254, 254, 254>>)
\* 9187201950435737471 = 0x7F7F7F7F7F7F7F7F
K9187201950435737471 == FromBytes(<<127, 127, 127, 127, 127, 127, 127, 127>>)
\* 18446744073709551360 = 0xFFFFFFFFFFFFFF00
K18446744073709551360 == FromBytes(<<255, 255, 255, 255, 255, 255, 255, 0>>)
\* 72057594037927935 = 0x00FFFFFFFFFFFFFF
K72057594037927935 == FromBytes(<<0, 255, 255, 255, 255, 255, 255, 255>>)
\* 9187201950435737344 = 0x7F7F7F7F7F7F7F00
K9187201950435737344 == FromBytes(<<127, 127, 127, 127, 127, 127, 127, 0>>)
\* 18374403900871474688 = 0xFEFEFEFEFEFEFE00
K18374403900871474688 == FromBytes(<<254, 254, 254, 254, 254, 254, 254, 0>>)
\* 35887507618889599 = 0x007F7F7F7F7F7F7F
K35887507618889599 == FromBytes(<<0, 127, 127, 127, 127, 127, 127, 127>>)
\* 71775015237779198 = 0x00FEFEFEFEFEFEFE
K71775015237779198 == FromBytes(<<0, 254, 254, 254, 254, 254, 254, 254>>)
\* 34628173824 = 0x0000000810000000
K34628173824 == FromBytes(<<0, 0, 0, 8, 16, 0, 0, 0>>)
\* 68853694464 = 0x0000001008000000
K68853694464 == FromBytes(<<0, 0, 0, 16, 8, 0, 0, 0>>)

\* a bitboard state [black, white, player]
BBState(b, w, p) == (0 :> b) @@ (1 :> w) @@ (2 :> p)

(***************************************************************************)
(* StateEnvBitBoard._legal_moves_helper: the eight unrolled sweeps.        *)
(***************************************************************************)
\* one `while(c)` loop of the helper; sh > 0 shifts left, sh < 0 right
Shift(x, sh) == IF sh >= 0 THEN Shl(x, sh) ELSE Shr(x, 0 - sh)

\* self._directions: the keys of the two dictionaries of __init__
directions == {"left", "right", "top", "bottom",
               "right_top", "left_top", "right_bottom", "left_bottom"}

\* mutant: the mask of 'right' is the mask of 'left'
incorrect_shift_mask_right_as_left(k) ==
    CASE k = "left"         -> K18374403900871474942
      [] k = "right"        -> K18374403900871474942
      [] k = "top"          -> K18446744073709551360
      [] k = "bottom"       -> K72057594037927935
      [] k = "right_top"    -> K9187201950435737344
      [] k = "left_top"     -> K18374403900871474688
      [] k = "right_bottom" -> K35887507618889599
      [] k = "left_bottom"  -> K71775015237779198

\* self._incorrect_shift_mask[k]
incorrect_shift_mask(k) ==
    CASE k = "left"         -> K18374403900871474942
      [] k = "right"        -> K9187201950435737471
      [] k = "top"          -> K18446744073709551360
      [] k = "bottom"       -> K72057594037927935
      [] k = "right_top"    -> K9187201950435737344
      [] k = "left_top"     -> K18374403900871474688
      [] k = "right_bottom" -> K35887507618889599
      [] k = "left_bottom"  -> K71775015237779198

\* self._bit_shift_fn[k](x)
bit_shift_fn(k, x) ==
    CASE k = "left"         -> Shl(x, 1)
      [] k = "right"        -> Shr(x, 1)
      [] k = "top"          -> Shl(x, 8)
      [] k = "bottom"       -> Shr(x, 8)
      [] k = "right_top"    -> Shl(x, 7)
      [] k = "left_top"     -> Shl(x, 9)
      [] k = "right_bottom" -> Shr(x, 9)
      [] k = "left_bottom"  -> Shr(x, 7)

\* `self._bit_shift_fn[k](s) & self._incorrect_shift_mask[k]`
shift_and_mask(k, x) == bit_shift_fn(k, x) \cap incorrect_shift_mask(k)

\* the same step as _legal_moves_helper spells it out under each direction's
\* comment, e.g. `(c << 1) & 18374403900871474942` under "# left"
unrolled_shift_and_mask(k, c) ==
    CASE k = "left"         -> Shl(c, 1) \cap K18374403900871474942
      [] k = "right"        -> Shr(c, 1) \cap K9187201950435737471
      [] k = "top"          -> Shl(c, 8) \cap K18446744073709551360
      [] k = "bottom"       -> Shr(c, 8) \cap K72057594037927935
      [] k = "right_top"    -> Shl(c, 7) \cap K9187201950435737344
      [] k = "left_top"     -> Shl(c, 9) \cap K18374403900871474688
      [] k = "right_bottom" -> Shr(c, 9) \cap K35887507618889599
      [] k = "left_bottom"  -> Shr(c, 7) \cap K71775015237779198

RECURSIVE sweep_loop(_, _, _, _, _, _)
sweep_loop(c, m, board_notp, e, sh, mask) ==
    IF c = {} THEN m
    ELSE CHOOSE r \in {sweep_loop(board_notp \cap shifted, m \cup (e \cap shifted),
                                  board_notp, e, sh, mask) :
                         shifted \in {Shift(c, sh) \cap mask}} : TRUE

sweep_left(m, board_p, board_notp, e) ==
    sweep_loop(board_notp \cap Shl(board_p, 1) \cap K18374403900871474942,
               m, board_notp, e, 1, K18374403900871474942)
\* mutant: the sweep to the right masks with the constant of the sweep to
\* the left, so a run may continue from column 0 into column 7 of the row above
sweep_right_left_mask(m, board_p, board_notp, e) ==
    sweep_loop(board_notp \cap Shr(board_p, 1) \cap K18374403900871474942,
               m, board_notp, e, -1, K18374403900871474942)
sweep_right(m, board_p, board_notp, e) ==
    sweep_loop(board_notp \cap Shr(board_p, 1) \cap K9187201950435737471,
               m, board_notp, e, -1, K9187201950435737471)
sweep_top(m, board_p, board_notp, e) ==
    sweep_loop(board_notp \cap Shl(board_p, 8) \cap K18446744073709551360,
               m, board_notp, e, 8, K18446744073709551360)
sweep_bottom(m, board_p, board_notp, e) ==
    sweep_loop(board_notp \cap Shr(board_p, 8) \cap K72057594037927935,
               m, board_notp, e, -8, K72057594037927935)
sweep_right_top(m, board_p, board_notp, e) ==
    sweep_loop(board_notp \cap Shl(board_p, 7) \cap K9187201950435737344,
               m, board_notp, e, 7, K9187201950435737344)
sweep_left_top(m, board_p, board_notp, e) ==
    sweep_loop(board_notp \cap Shl(board_p, 9) \cap K18374403900871474688,
               m, board_notp, e, 9, K18374403900871474688)
sweep_right_bottom(m, board_p, board_notp, e) ==
    sweep_loop(board_notp \cap Shr(board_p, 9) \cap K35887507618889599,
               m, board_notp, e, -9, K35887507618889599)
sweep_left_bottom(m, board_p, board_notp, e) ==
    sweep_loop(board_notp \cap Shr(board_p, 7) \cap K71775015237779198,
               m, board_notp, e, -7, K71775015237779198)

\* the eight sweeps in the order of the source, each adding to m
BB_sweeps(board_p, board_notp, e) ==
    LET m1 == sweep_left(        {}, board_p, board_notp, e)
        m2 == sweep_right(       m1, board_p, board_notp, e)
        m3 == sweep_top(         m2, board_p, board_notp, e)
        m4 == sweep_bottom(      m3, board_p, board_notp, e)
        m5 == sweep_right_top(   m4, board_p, board_notp, e)
        m6 == sweep_left_top(    m5, board_p, board_notp, e)
        m7 == sweep_right_bottom(m6, board_p, board_notp, e)
        m8 == sweep_left_bottom( m7, board_p, board_notp, e)
    IN  m8

\* `e = self._max - (board_p | board_notp)`
BB_empty(board_p, board_notp) == Minus(K_max, board_p \cup board_notp)

BB_legal_moves_helper(s) ==
    LET p == s[2]
        not_p == IF p # 0 THEN 0 ELSE 1
        board_p == s[p]
        board_notp == s[not_p]
    IN  CHOOSE m \in {BB_sweeps(board_p, board_notp, e) :
                        e \in {BB_empty(board_p, board_notp)}} : TRUE

(***************************************************************************)
(* StateEnvBitBoard._get_next_board: the eight unrolled capture walks.     *)
(***************************************************************************)
\* one `while(c & board_notp)` loop; the result is the pair <<c, m>> on exit
RECURSIVE capture_loop(_, _, _, _, _)
capture_loop(c, m, board_notp, sh, mask) ==
    IF c \cap board_notp = {} THEN <<c, m>>
    ELSE CHOOSE r \in {capture_loop(shifted, m \cup c, board_notp, sh, mask) :
                         shifted \in {Shift(c, sh) \cap mask}} : TRUE

\* mutant: the test of the disc that ends the walk is inverted
capture_commit_inverted(update_master, cm, board_p) ==
    IF cm[1] \cap board_p = {} THEN update_master \cup cm[2] ELSE update_master

\* `if(not(c & board_p)): m = 0  else: update_master = update_master | m`
capture_commit(update_master, cm, board_p) ==
    IF cm[1] \cap board_p = {} THEN update_master ELSE update_master \cup cm[2]

capture_left(update_master, a, board_p, board_notp) ==
    capture_commit(update_master,
        capture_loop(board_notp \cap Shl(a, 1) \cap K18374403900871474942,
                     {}, board_notp, 1, K18374403900871474942), board_p)
capture_right(update_master, a, board_p, board_notp) ==
    capture_commit(update_master,
        capture_loop(board_notp \cap Shr(a, 1) \cap K9187201950435737471,
                     {}, board_notp, -1, K9187201950435737471), board_p)
capture_top(update_master, a, board_p, board_notp) ==
    capture_commit(update_master,
        capture_loop(board_notp \cap Shl(a, 8) \cap K18446744073709551360,
                     {}, board_notp, 8, K18446744073709551360), board_p)
capture_bottom(update_master, a, board_p, board_notp) ==
    capture_commit(update_master,
        capture_loop(board_notp \cap Shr(a, 8) \cap K72057594037927935,
                     {}, board_notp, -8, K72057594037927935), board_p)
\* mutant: the walk to the right and top shifts by 9, the amount of the walk
\* to the left and top
capture_right_top_shift_9(update_master, a, board_p, board_notp) ==
    capture_commit(update_master,
        capture_loop(board_notp \cap Shl(a, 9) \cap K9187201950435737344,
                     {}, board_notp, 9, K9187201950435737344), board_p)
capture_right_top(update_master, a, board_p, board_notp) ==
    capture_commit(update_master,
        capture_loop(board_notp \cap Shl(a, 7) \cap K9187201950435737344,
                     {}, board_notp, 7, K9187201950435737344), board_p)
capture_left_top(update_master, a, board_p, board_notp) ==
    capture_commit(update_master,
        capture_loop(board_notp \cap Shl(a, 9) \cap K18374403900871474688,
                     {}, board_notp, 9, K18374403900871474688), board_p)
capture_right_bottom(update_master, a, board_p, board_notp) ==
    capture_commit(update_master,
        capture_loop(board_notp \cap Shr(a, 9) \cap K35887507618889599,
                     {}, board_notp, -9, K35887507618889599), board_p)
capture_left_bottom(update_master, a, board_p, board_notp) ==
    capture_commit(update_master,
        capture_loop(board_notp \cap Shr(a, 7) \cap K71775015237779198,
                     {}, board_notp, -7, K71775015237779198), board_p)

\* update_master after the eight walks, in the order of the source
BB_captures(a, board_p, board_notp) ==
    LET u1 == capture_left(        {}, a, board_p, board_notp)
        u2 == capture_right(       u1, a, board_p, board_notp)
        u3 == capture_top(         u2, a, board_p, board_notp)
        u4 == capture_bottom(      u3, a, board_p, board_notp)
        u5 == capture_right_top(   u4, a, board_p, board_notp)
        u6 == capture_left_top(    u5, a, board_p, board_notp)
        u7 == capture_right_bottom(u6, a, board_p, board_notp)
        u8 == capture_left_bottom( u7, a, board_p, board_notp)
    IN  u8

BB_update_master(s, a) ==
    LET p == s[2]
        not_p == IF p # 0 THEN 0 ELSE 1
        board_p == s[p]
        board_notp == s[not_p]
    IN  BB_captures(a, board_p, board_notp)

(***************************************************************************)
(* The loops over self._directions that the source keeps, as text, above   *)
(* the unrolled blocks of _legal_moves_helper and _get_next_board.         *)
(***************************************************************************)
\* the keys of the dictionaries of __init__ in the order `for k in
\* self._directions` visits them
directions_order == <<"left", "right", "top", "bottom",
                      "right_top", "left_top", "right_bottom", "left_bottom">>

\* `while(c):` of the loop of _legal_moves_helper for direction k
RECURSIVE generic_sweep_loop(_, _, _, _, _)
generic_sweep_loop(k, c, m, board_notp, e) ==
    IF c = {} THEN m
    ELSE CHOOSE r \in {generic_sweep_loop(k, board_notp \cap shifted,
                                          m \cup (e \cap shifted), board_notp, e) :
                         shifted \in {shift_and_mask(k, c)}} : TRUE

\* one pass of `for k in self._directions:` of _legal_moves_helper
generic_sweep(k, m, board_p, board_notp, e) ==
    generic_sweep_loop(k, board_notp \cap shift_and_mask(k, board_p), m, board_notp, e)

\* m after the passes for the first n directions
RECURSIVE generic_sweeps_upto(_, _, _, _)
generic_sweeps_upto(n, board_p, board_notp, e) ==
    IF n = 0 THEN {}
    ELSE generic_sweep(directions_order[n],
                       generic_sweeps_upto(n - 1, board_p, board_notp, e),
                       board_p, board_notp, e)

generic_sweeps(board_p, board_notp, e) ==
    generic_sweeps_upto(Len(directions_order), board_p, board_notp, e)

\* the block of _legal_moves_helper under the comment that names direction k
unrolled_sweep(k, m, board_p, board_notp, e) ==
    CASE k = "left"         -> sweep_left(m, board_p, board_notp, e)
      [] k = "right"        -> sweep_right(m, board_p, board_notp, e)
      [] k = "top"          -> sweep_top(m, board_p, board_notp, e)
      [] k = "bottom"       -> sweep_bottom(m, board_p, board_notp, e)
      [] k = "right_top"    -> sweep_right_top(m, board_p, board_notp, e)
      [] k = "left_top"     -> sweep_left_top(m, board_p, board_notp, e)
      [] k = "right_bottom" -> sweep_right_bottom(m, board_p, board_notp, e)
      [] k = "left_bottom"  -> sweep_left_bottom(m, board_p, board_notp, e)

\* `while(c & board_notp):` of the loop of _get_next_board for direction k;
\* returns <<c, m>> as the loop leaves them
RECURSIVE generic_capture_loop(_, _, _, _)
generic_capture_loop(k, c, m, board_notp) ==
    IF c \cap board_notp = {} THEN <<c, m>>
    ELSE CHOOSE r \in {generic_capture_loop(k, shifted, m \cup c, board_notp) :
                         shifted \in {shift_and_mask(k, c)}} : TRUE

\* one pass of `for k in self._directions:` of _get_next_board: m is reset
\* to 0 unless the walk ended on a disc of the mover, then joined
generic_capture(k, update_master, a, board_p, board_notp) ==
    CHOOSE u \in {IF cm[1] \cap board_p = {} THEN update_master
                   ELSE update_master \cup cm[2] :
                   cm \in {generic_capture_loop(k, board_notp \cap shift_and_mask(k, a),
                                                {}, board_notp)}} : TRUE

\* update_master after the passes for the first n directions
RECURSIVE generic_captures_upto(_, _, _, _)
generic_captures_upto(n, a, board_p, board_notp) ==
    IF n = 0 THEN {}
    ELSE generic_capture(directions_order[n],
                         generic_captures_upto(n - 1, a, board_p, board_notp),
                         a, board_p, board_notp)

generic_captures(a, board_p, board_notp) ==
    generic_captures_upto(Len(directions_order), a, board_p, board_notp)

\* the block of _get_next_board under the comment that names direction k
unrolled_capture(k, update_master, a, board_p, board_notp) ==
    CASE k = "left"         -> capture_left(update_master, a, board_p, board_notp)
      [] k = "right"        -> capture_right(update_master, a, board_p, board_notp)
      [] k = "top"          -> capture_top(update_master, a, board_p, board_notp)
      [] k = "bottom"       -> capture_bottom(update_master, a, board_p, board_notp)
      [] k = "right_top"    -> capture_right_top(update_master, a, board_p, board_notp)
      [] k = "left_top"     -> capture_left_top(update_master, a, board_p, board_notp)
      [] k = "right_bottom" -> capture_right_bottom(update_master, a, board_p, board_notp)
      [] k = "left_bottom"  -> capture_left_bottom(update_master, a, board_p, board_notp)

\* mutant: the turned-over discs are not given to the mover
BB_new_board_p_without_update(board_p, update_master, a) == board_p \cup a

\* mutant: the cell played is not given to the mover
BB_new_board_p_without_a(board_p, update_master, a) == board_p \cup update_master

\* `board_p = board_p | update_master | a`
BB_new_board_p(board_p, update_master, a) == board_p \cup update_master \cup a

\* mutant: the turned-over discs are not taken from the opponent
BB_new_board_notp_unchanged(board_notp, update_master) == board_notp

\* mutant: the operands of the subtraction are exchanged
BB_new_board_notp_swapped(board_notp, update_master) == Minus(update_master, board_notp)

\* `board_notp = board_notp - update_master`
BB_new_board_notp(board_notp, update_master) == Minus(board_notp, update_master)

\* the tail of _get_next_board, from "all directions searched" on
BB_update_boards(s, a, update_master) ==
    LET p == s[2]
        not_p == IF p # 0 THEN 0 ELSE 1
        board_p == BB_new_board_p(s[p], update_master, a)
        board_notp == BB_new_board_notp(s[not_p], update_master)
    IN  IF p = 0 THEN BBState(board_p, board_notp, p)
        ELSE BBState(board_notp, board_p, p)

BB_get_next_board(s, a) ==
    CHOOSE s_next \in {BB_update_boards(s, a, update_master) :
                         update_master \in {BB_update_master(s, a)}} : TRUE

(***************************************************************************)
(* StateEnvBitBoard.reset, step and count_coins.                           *)
(***************************************************************************)
\* mutant: side 0 is given the first move
BB_reset_black_to_move ==
    [s |-> BBState(K34628173824, K68853694464, 0),
     legal_moves |-> BB_legal_moves_helper(BBState(K34628173824, K68853694464, 0)),
     player |-> 0]

BB_reset ==
    LET starter_b == K34628173824
        starter_w == K68853694464
        player == 1
        starter_board == BBState(starter_b, starter_w, player)
    IN  [s |-> starter_board,
         legal_moves |-> BB_legal_moves_helper(starter_board),
         player |-> player]

\* `0 if(x) else 1`
BB_other(x) == IF x # 0 THEN 0 ELSE 1

\* mutant: the board counts as full whenever the opponent cannot move
BB_board_full_always(s_next) == TRUE

\* `s_next[0] | s_next[1] == self._max`
BB_board_full(s_next) == (s_next[0] \cup s_next[1]) = K_max

\* the result [s_next, legal_moves, next_player, done] of step(s, a);
\* calls counts the invocations of _legal_moves_helper
\* mutant: the second empty legal-move set does not end the game
BB_step_second_never_done(s_next, legal_moves) ==
    [s_next |-> s_next, legal_moves |-> legal_moves, next_player |-> s_next[2],
     done |-> 0, calls |-> 2]

\* step from the second `legal_moves = self._legal_moves_helper(s_next)` on,
\* s_next and legal_moves being the values just assigned
BB_step_second(s_next, legal_moves) ==
    [s_next |-> s_next, legal_moves |-> legal_moves, next_player |-> s_next[2],
     done |-> IF legal_moves = {} THEN 1 ELSE 0, calls |-> 2]

\* mutant: the side to move is not switched back
BB_switch_player_skipped(s_next) == s_next

\* `s_next[2] = 0 if(s_next[2]) else 1`
BB_switch_player(s_next) == [s_next EXCEPT ![2] = BB_other(s_next[2])]

\* mutant: the legal moves are not recomputed after the switch back
BB_step_pass_stale_moves(s_next) ==
    BB_step_second(s_next, BB_legal_moves_helper(BB_switch_player(s_next)))

\* step from the second `legal_moves = self._legal_moves_helper(s_next)` to
\* the return, s_next having been switched back
BB_step_pass(s_next) ==
    CHOOSE r \in {BB_step_second(s_new, legal_moves) :
                    s_new \in {s_next},
                    legal_moves \in {BB_legal_moves_helper(s_next)}} : TRUE

\* mutant: the full-board test is made after the second scan
BB_step_first_full_test_late(s_next, legal_moves) ==
    IF legal_moves = {}
    THEN IF BB_board_full(s_next)
         THEN [BB_step_pass(BB_switch_player(s_next)) EXCEPT !.done = 1]
         ELSE BB_step_pass(BB_switch_player(s_next))
    ELSE [s_next |-> s_next, legal_moves |-> legal_moves,
          next_player |-> s_next[2], done |-> 0, calls |-> 1]

\* mutant: a full board does not end the game
BB_step_first_full_not_done(s_next, legal_moves) ==
    IF legal_moves = {}
    THEN IF BB_board_full(s_next)
         THEN [s_next |-> s_next, legal_moves |-> legal_moves,
               next_player |-> s_next[2], done |-> 0, calls |-> 1]
         ELSE BB_step_pass(BB_switch_player(s_next))
    ELSE [s_next |-> s_next, legal_moves |-> legal_moves,
          next_player |-> s_next[2], done |-> 0, calls |-> 1]

\* step from `if(legal_moves == 0)` on
BB_step_first(s_next, legal_moves) ==
    IF legal_moves = {}
    THEN IF BB_board_full(s_next)
         THEN [s_next |-> s_next, legal_moves |-> legal_moves,
               next_player |-> s_next[2], done |-> 1, calls |-> 1]
         ELSE BB_step_pass(BB_switch_player(s_next))
    ELSE [s_next |-> s_next, legal_moves |-> legal_moves,
          next_player |-> s_next[2], done |-> 0, calls |-> 1]

BB_step_moved(s_next) ==
    CHOOSE r \in {BB_step_first(s_next, legal_moves) :
                    legal_moves \in {BB_legal_moves_helper(s_next)}} : TRUE

\* mutant: the turn marker of the applied board is left as it was
BB_step_apply_keeps_player(s, a) == BB_get_next_board(s, a)

\* `s_next = self._get_next_board(s, a)` and `s_next[2] = 0 if(s[2]) else 1`
BB_step_apply(s, a) == [BB_get_next_board(s, a) EXCEPT ![2] = BB_other(s[2])]

BB_step(s, a) ==
    CHOOSE r \in {BB_step_moved(s_next) : s_next \in {BB_step_apply(s, a)}} : TRUE

\* the `while(t)` loop adds `t & 1` and shifts t right until t is 0: the
\* sum of the bits of t at positions lo..hi
RECURSIVE count_range(_, _, _)
count_range(t, lo, hi) ==
    IF lo = hi THEN (IF lo \in t THEN 1 ELSE 0)
    ELSE LET mid == (lo + hi) \div 2
         IN  count_range(t, lo, mid) + count_range(t, mid + 1, hi)

count_loop(t) == count_range(t, 0, Width - 1)

\* mutant: the counts are returned in the order of the docstring, <<w, b>>
BB_count_coins_white_first(s) == <<count_loop(s[1]), count_loop(s[0])>>

\* returns <<b, w>>
BB_count_coins(s) == <<count_loop(s[0]), count_loop(s[1])>>

(***************************************************************************)
(* StateEnv: the dense engine.  A board is s[row][col][channel] with       *)
(* channel 0 = black, 1 = white, 2 = player to move, each cell a uint8.    *)
(***************************************************************************)
Rows == 0..(Size - 1)

\* value stored into a uint8 cell
U8(v) == v % 256

Abs(v) == IF v < 0 THEN 0 - v ELSE v

\* the direction list of the helper's innermost for loop
SE_directions ==
    <<  <<-1, -1>>, <<-1, 0>>, <<-1, 1>>,
        <<0, -1>>, <<0, 1>>,
        <<1, -1>>, <<1, 0>>, <<1, 1>>  >>

SE_check_legal_index(row, col) ==
    0 <= row /\ row < Size /\ 0 <= col /\ col < Size

\* the `while(True)` search of one direction, entered with i already
\* incremented: the i at which a disc of current_player is found, or 0
\* when the search breaks on a blank cell or leaves the board
RECURSIVE SE_search(_, _, _, _, _, _, _)
SE_search(s, row, col, del_row, del_col, current_player, i) ==
    LET n_row == row + i * del_row
        n_col == col + i * del_col
    IN  IF SE_check_legal_index(n_row, n_col)
        THEN IF s[n_row][n_col][0] + s[n_row][n_col][1] = 0 THEN 0
             ELSE IF s[n_row][n_col][current_player] = 1 THEN i
             ELSE SE_search(s, row, col, del_row, del_col, current_player, i + 1)
        ELSE 0

\* mutant: the neighbour is not required to hold a disc of opposite_player
SE_found_without_neighbour_test(s, row, col, d, current_player, opposite_player) ==
    IF SE_check_legal_index(row + d[1], col + d[2])
    THEN SE_search(s, row, col, d[1], d[2], current_player, 2)
    ELSE 0

\* one direction from (row, col): the value of i when `found`, else 0
SE_found(s, row, col, d, current_player, opposite_player) ==
    LET n_row == row + d[1]
        n_col == col + d[2]
    IN  IF SE_check_legal_index(n_row, n_col)
        THEN IF s[n_row][n_col][opposite_player] = 1
             THEN SE_search(s, row, col, d[1], d[2], current_player, 2)
             ELSE 0
        ELSE 0

\* `if(s[row,col,0] + s[row,col,1] == 0)`, a uint8 sum
SE_cell_empty(s, row, col) == U8(s[row][col][0] + s[row][col][1]) = 0

\* mutant: only the disc next to the played cell is rewritten
SE_flipped_first_only(s, row, col, current_player, opposite_player) ==
    UNION {{<<row + i * SE_directions[k][1], col + i * SE_directions[k][2]>> :
              i \in {j \in {1} : j <= SE_found(s, row, col, SE_directions[k],
                                              current_player, opposite_player) - 1}} :
           k \in 1..Len(SE_directions)}

\* the cells rewritten by the inner `while(True)` of play mode
SE_flipped(s, row, col, current_player, opposite_player) ==
    UNION {{<<row + i * SE_directions[k][1], col + i * SE_directions[k][2]>> :
              i \in 1..(SE_found(s, row, col, SE_directions[k],
                                 current_player, opposite_player) - 1)} :
           k \in 1..Len(SE_directions)}

\* `opposite_player = 0 if current_player else 1`
SE_opposite(current_player) == IF current_player # 0 THEN 0 ELSE 1

\* legal_moves of _legal_moves_helper(s) with play=False
SE_legal_moves(s) ==
    LET current_player == s[0][0][2]
        opposite_player == SE_opposite(current_player)
    IN  [row \in Rows |-> [col \in Rows |->
            IF /\ SE_cell_empty(s, row, col)
               /\ \E k \in 1..Len(SE_directions) :
                      SE_found(s, row, col, SE_directions[k],
                               current_player, opposite_player) > 0
            THEN 1 ELSE 0]]

\* s_new once the loops are over: the cells of `flipped` rewritten, and the
\* action cell taken by current_player when it was empty
SE_s_new(s, action_row, action_col, current_player, opposite_player, empty, flipped) ==
    [row \in Rows |-> [col \in Rows |->
        IF <<row, col>> \in flipped
        THEN [s[row][col] EXCEPT ![opposite_player] = 0, ![current_player] = 1]
        ELSE IF empty /\ row = action_row /\ col = action_col
        THEN [s[row][col] EXCEPT ![current_player] = 1]
        ELSE s[row][col]]]

\* s_new of _legal_moves_helper(s, action_row, action_col, play=True)
SE_play(s, action_row, action_col) ==
    LET current_player == s[0][0][2]
        opposite_player == SE_opposite(current_player)
    IN  IF SE_cell_empty(s, action_row, action_col)
        THEN CHOOSE s_new \in
                 {SE_s_new(s, action_row, action_col, current_player,
                           opposite_player, TRUE, flipped) :
                    flipped \in {SE_flipped(s, action_row, action_col,
                                            current_player, opposite_player)}} : TRUE
        ELSE SE_s_new(s, action_row, action_col, current_player, opposite_player,
                      FALSE, {})

\* `s[:, :, 2] = v`
SE_set_player(s, v) ==
    [row \in Rows |-> [col \in Rows |-> [s[row][col] EXCEPT ![2] = U8(v)]]]

\* sum of the cells of a 2-d grid with flat index in lo..hi
RECURSIVE grid_sum_range(_, _, _)
grid_sum_range(g, lo, hi) ==
    IF lo = hi THEN g[lo \div Size][lo % Size]
    ELSE LET mid == (lo + hi) \div 2
         IN  grid_sum_range(g, lo, mid) + grid_sum_range(g, mid + 1, hi)

\* g.sum() of a 2-d grid
grid_sum(g) ==
    CHOOSE n \in {grid_sum_range(h, 0, Size * Size - 1) : h \in {g}} : TRUE

\* mutant: only the first channel is summed
SE_coin_sum_first_channel(s) ==
    grid_sum([row \in Rows |-> [col \in Rows |-> s[row][col][0]]])

\* `s_next[:,:,:2].sum()`
SE_coin_sum(s) ==
    grid_sum([row \in Rows |-> [col \in Rows |-> s[row][col][0] + s[row][col][1]]])

\* mutant: the turn marker is copied, not flipped
SE_flip_player_same(x) == x

\* `abs(s[0,0,2]-1)`: a uint8 scalar minus a Python int is computed in a
\* signed 64-bit integer (NumPy's scalar promotion at the time the source
\* was written), so 0 - 1 is -1 and its absolute value 1
SE_flip_player(x) == Abs(x - 1)

SE_reset ==
    LET half_width == (Size \div 2) - 1
        starter_board ==
            [row \in Rows |-> [col \in Rows |->
                (0 :> (IF \/ (row = half_width /\ col = half_width + 1)
                          \/ (row = half_width + 1 /\ col = half_width)
                       THEN 1 ELSE 0))
             @@ (1 :> (IF \/ (row = half_width /\ col = half_width)
                          \/ (row = half_width + 1 /\ col = half_width + 1)
                       THEN 1 ELSE 0))
             @@ (2 :> 1)]]
    IN  [s |-> starter_board,
         legal_moves |-> SE_legal_moves(starter_board),
         player |-> 1]

\* the result of StateEnv.step(s, a), a the linear index of the cell;
\* calls counts the invocations of _legal_moves_helper with play=False
\* step from the second `legal_moves, _ = self._legal_moves_helper(s_next)` on
SE_step_second(s_next, legal_moves) ==
    [s_next |-> s_next, legal_moves |-> legal_moves,
     next_player |-> s_next[0][0][2],
     done |-> IF grid_sum(legal_moves) = 0 THEN 1 ELSE 0, calls |-> 2]

SE_step_pass(s_next) ==
    CHOOSE r \in {SE_step_second(s_new, SE_legal_moves(s_new)) :
                    s_new \in {s_next}} : TRUE

\* step from `if(legal_moves.sum() == 0)` on; s is the argument of step
SE_step_first(s, s_next, legal_moves) ==
    IF grid_sum(legal_moves) = 0
    THEN IF SE_coin_sum(s_next) = Size * Size
         THEN [s_next |-> s_next, legal_moves |-> legal_moves,
               next_player |-> s_next[0][0][2], done |-> 1, calls |-> 1]
         ELSE SE_step_pass(SE_set_player(s_next, s[0][0][2]))
    ELSE [s_next |-> s_next, legal_moves |-> legal_moves,
          next_player |-> s_next[0][0][2], done |-> 0, calls |-> 1]

SE_step_moved(s, s_next) ==
    CHOOSE r \in {SE_step_first(s, s_next, legal_moves) :
                    legal_moves \in {SE_legal_moves(s_next)}} : TRUE

\* the play=True call and `s_next[:,:,2] = abs(s[0,0,2]-1)`
SE_step_apply(s, a) ==
    CHOOSE s_next \in {SE_set_player(s_new, SE_flip_player(s[0][0][2])) :
                         s_new \in {SE_play(s, a \div Size, a % Size)}} : TRUE

SE_step(s, a) ==
    CHOOSE r \in {SE_step_moved(s, s_next) : s_next \in {SE_step_apply(s, a)}} : TRUE

\* `abs(s[0,0,2]-1)` under the scalar promotion of NumPy 2 (NEP 50): the
\* Python int takes the type of the uint8 scalar, the difference is a uint8
\* and 0 - 1 wraps to 255
SE_flip_player_numpy2(x) == Abs(U8(x - 1))

\* _legal_moves_helper(s) with play=False and a turn marker that is no
\* channel index: TRUE when the scan reaches `s[n_row, n_col, current_player]`,
\* which raises IndexError.  That read is made at i = 2 from an empty cell
\* whose neighbour holds a disc of opposite_player, when the next cell is on
\* the board and not blank; when it is never made the helper returns an
\* all-zero grid
SE_helper_raises(s) ==
    \E row \in Rows, col \in Rows, k \in 1..Len(SE_directions) :
        /\ s[0][0][2] \notin {0, 1, 2}
        /\ SE_cell_empty(s, row, col)
        /\ SE_check_legal_index(row + SE_directions[k][1], col + SE_directions[k][2])
        /\ s[row + SE_directions[k][1]][col + SE_directions[k][2]]
            [SE_opposite(s[0][0][2])] = 1
        /\ SE_check_legal_index(row + 2 * SE_directions[k][1],
                                col + 2 * SE_directions[k][2])
        /\ s[row + 2 * SE_directions[k][1]][col + 2 * SE_directions[k][2]][0]
           + s[row + 2 * SE_directions[k][1]][col + 2 * SE_directions[k][2]][1] # 0

\* step under NumPy 2 from `legal_moves, s_next = self._legal_moves_helper(s_next)`
\* on, s_next carrying the marker just written
SE_step_moved_numpy2(s, s_next) ==
    IF s_next[0][0][2] \in {0, 1}
    THEN [raised |-> FALSE, r |-> SE_step_moved(s, s_next)]
    ELSE IF SE_helper_raises(s_next)
    THEN [raised |-> TRUE,
          r |-> [s_next |-> s_next, legal_moves |-> <<>>,
                 next_player |-> s_next[0][0][2], done |-> 0, calls |-> 1]]
    ELSE [raised |-> FALSE,
          r |-> IF SE_coin_sum(s_next) = Size * Size
                THEN [s_next |-> s_next,
                      legal_moves |-> [row \in Rows |-> [col \in Rows |-> 0]],
                      next_player |-> s_next[0][0][2], done |-> 1, calls |-> 1]
                ELSE SE_step_pass(SE_set_player(s_next, s[0][0][2]))]

\* StateEnv.step(s, a) under NumPy 2: the result r, or raised with r holding
\* the locals at the raise; flip is the value of `abs(s[0,0,2]-1)`
SE_step_numpy2(s, a) ==
    CHOOSE out \in {[raised |-> m.raised, r |-> m.r, flip |-> flip] :
                      flip \in {SE_flip_player_numpy2(s[0][0][2])},
                      m \in {SE_step_moved_numpy2(
                                 s, SE_set_player(SE_play(s, a \div Size, a % Size),
                                                  SE_flip_player_numpy2(s[0][0][2])))}} : TRUE

\* mutant: the sums of the two channels are returned in the other order
SE_count_coins_white_first(s) ==
    <<grid_sum([row \in Rows |-> [col \in Rows |-> s[row][col][1]]]),
      grid_sum([row \in Rows |-> [col \in Rows |-> s[row][col][0]]])>>

\* returns <<b, w>>
SE_count_coins(s) ==
    <<grid_sum([row \in Rows |-> [col \in Rows |-> s[row][col][0]]]),
      grid_sum([row \in Rows |-> [col \in Rows |-> s[row][col][1]]])>>

(***************************************************************************)
(* StateConverter.                                                         *)
(***************************************************************************)
\* mutant: the powers of two ascend with the flat index
array_to_bitboard_exp_ascending(row, col) == row * Size + col

\* self._array_to_bitboard after the reshape, as the exponent of the power
\* of two held at [row][col]: x starts at 1 at flat index Size*Size - 1 and
\* doubles at each step down to flat index 0
array_to_bitboard_exp(row, col) ==
    (Size * Size - 1) - (row * Size + col)

\* int(np.multiply(g, self._array_to_bitboard).sum()), a uint64 sum
RECURSIVE multiply_sum_range(_, _, _)
multiply_sum_range(g, lo, hi) ==
    IF lo = hi
    THEN Shl(BitsOf(g[lo \div Size][lo % Size]),
             array_to_bitboard_exp(lo \div Size, lo % Size))
    ELSE CHOOSE sum \in {Plus(x, y) :
                           x \in {multiply_sum_range(g, lo, (lo + hi) \div 2)},
                           y \in {multiply_sum_range(g, (lo + hi) \div 2 + 1, hi)}} : TRUE

multiply_sum(g) ==
    CHOOSE sum \in {multiply_sum_range(h, 0, Size * Size - 1) \cap (0..(Size * Size - 1)) :
                      h \in {g}} : TRUE

\* np.zeros((size, size, 3), dtype=np.uint8)
zeros3d == [row \in Rows |-> [col \in Rows |-> (0 :> 0) @@ (1 :> 0) @@ (2 :> 0)]]

\* mutant: the two loops fill the board column by column
bit_of_cell_column_major(t, i, j) ==
    IF ((Size - 1 - j) * Size + (Size - 1 - i)) \in t THEN 1 ELSE 0

\* the value `t & 1` read for cell (i, j) by the two nested loops that run
\* i and j from Size-1 down to 0 and shift t right once per cell
bit_of_cell(t, i, j) ==
    IF ((Size - 1 - i) * Size + (Size - 1 - j)) \in t THEN 1 ELSE 0

\* the first half of convert: the internal board for input s
convert_in(s, input_format) ==
    IF input_format = "bitboard"
    THEN [i \in Rows |-> [j \in Rows |->
            (0 :> bit_of_cell(s[0], i, j)) @@ (1 :> bit_of_cell(s[1], i, j))
            @@ (2 :> U8(s[2]))]]
    ELSE IF input_format = "ndarray3d" THEN s
    ELSE IF input_format = "bitboard_single"
    THEN [i \in Rows |-> [j \in Rows |->
            (0 :> bit_of_cell(s, i, j)) @@ (1 :> 0) @@ (2 :> 0)]]
    ELSE IF input_format = "ndarray"
    THEN [i \in Rows |-> [j \in Rows |-> (0 :> U8(s[i][j])) @@ (1 :> 0) @@ (2 :> 0)]]
    ELSE IF input_format = "position"
    THEN [zeros3d EXCEPT ![s \div Size][s % Size][0] = 1]
    ELSE zeros3d

\* the second half of convert: the output for the internal board
convert_out(board, s, output_format) ==
    IF output_format = "bitboard"
    THEN LET board_b == multiply_sum([i \in Rows |-> [j \in Rows |-> board[i][j][0]]])
             board_w == multiply_sum([i \in Rows |-> [j \in Rows |-> board[i][j][1]]])
             player == s[0][0][2]
         IN  BBState(board_b, board_w, player)
    ELSE IF output_format = "ndarray3d" THEN board
    ELSE IF output_format = "ndarray"
    THEN [i \in Rows |-> [j \in Rows |-> board[i][j][0]]]
    ELSE IF output_format = "bitboard_single"
    THEN multiply_sum([i \in Rows |-> [j \in Rows |-> board[i][j][0]]])
    ELSE "None"

convert(s, input_format, output_format) ==
    IF input_format = output_format THEN s
    ELSE CHOOSE out \in {convert_out(board, s, output_format) :
                           board \in {convert_in(s, input_format)}} : TRUE

(***************************************************************************)
(* Game.create_board_reps: the symmetric copies of one transition.         *)
(***************************************************************************)
\* np.flip(x, axis) of a Size x Size array: axis 0 reverses the order of
\* the rows, axis 1 the order of the columns
flip(x, axis) ==
    IF axis = 0
    THEN [i \in Rows |-> [j \in Rows |-> x[Size - 1 - i][j]]]
    ELSE [i \in Rows |-> [j \in Rows |-> x[i][Size - 1 - j]]]

\* np.rot90(x, k): k quarter turns from the first axis towards the second
\* (counter-clockwise), so one turn puts x[j][Size-1-i] at [i][j]
rot90(x, k) ==
    IF k % 4 = 0 THEN x
    ELSE IF k % 4 = 1 THEN [i \in Rows |-> [j \in Rows |-> x[j][Size - 1 - i]]]
    ELSE IF k % 4 = 2 THEN [i \in Rows |-> [j \in Rows |-> x[Size - 1 - i][Size - 1 - j]]]
    ELSE [i \in Rows |-> [j \in Rows |-> x[Size - 1 - j][i]]]

\* the keys of self._nd_trans_fn
nd_trans_keys ==
    {"normal_left", "normal_top", "normal_right",
     "horizontal_bottom", "horizontal_left", "horizontal_top", "horizontal_right",
     "vertical_bottom", "vertical_left", "vertical_top", "vertical_right"}

\* self._nd_trans_fn[k](x)
nd_trans_fn(k, x) ==
    CASE k = "normal_left" -> rot90(x, 1)
      [] k = "normal_top" -> rot90(x, 2)
      [] k = "normal_right" -> rot90(x, 3)
      [] k = "horizontal_bottom" -> flip(x, 0)
      [] k = "horizontal_left" -> rot90(flip(x, 0), 1)
      [] k = "horizontal_top" -> rot90(flip(x, 0), 2)
      [] k = "horizontal_right" -> rot90(flip(x, 0), 3)
      [] k = "vertical_bottom" -> flip(x, 1)
      [] k = "vertical_left" -> rot90(flip(x, 1), 1)
      [] k = "vertical_top" -> rot90(flip(x, 1), 2)
      [] k = "vertical_right" -> rot90(flip(x, 1), 3)

\* nd_list: the seven boards of the transition as Size x Size arrays
reps_nd_list(transition_list) ==
    [i \in 1..7 |->
        convert(CASE i = 1 -> transition_list.s[0]
                  [] i = 2 -> transition_list.s[1]
                  [] i = 3 -> transition_list.legal_moves
                  [] i = 4 -> transition_list.a
                  [] i = 5 -> transition_list.next_s[0]
                  [] i = 6 -> transition_list.next_s[1]
                  [] i = 7 -> transition_list.next_legal_moves,
                "bitboard_single", "ndarray")]

\* mutant: the action is copied, not transformed
reps_transformed_keeps_action(transition_list, nd_list, k) ==
    CHOOSE rec \in
        {[s |-> BBState(t[1], t[2], transition_list.s[2]),
          legal_moves |-> t[3],
          current_player |-> transition_list.current_player,
          a |-> transition_list.a,
          next_s |-> BBState(t[5], t[6], transition_list.next_s[2]),
          next_legal_moves |-> t[7],
          next_player |-> transition_list.next_player,
          done |-> transition_list.done,
          winner |-> transition_list.winner] :
         t \in {[i \in 1..7 |-> multiply_sum(nd_trans_fn(k, nd_list[i]))]}} : TRUE

\* transition_dict[k] for a key k of self._nd_trans_fn: every board of
\* nd_list transformed and summed back into a bit mask, the rest copied
reps_transformed(transition_list, nd_list, k) ==
    CHOOSE rec \in
        {[s |-> BBState(t[1], t[2], transition_list.s[2]),
          legal_moves |-> t[3],
          current_player |-> transition_list.current_player,
          a |-> t[4],
          next_s |-> BBState(t[5], t[6], transition_list.next_s[2]),
          next_legal_moves |-> t[7],
          next_player |-> transition_list.next_player,
          done |-> transition_list.done,
          winner |-> transition_list.winner] :
         t \in {[i \in 1..7 |-> multiply_sum(nd_trans_fn(k, nd_list[i]))]}} : TRUE

\* the dictionary returned: 'normal_bottom' is the transition itself
create_board_reps(transition_list) ==
    CHOOSE transition_dict \in
        {("normal_bottom" :> transition_list) @@
         [k \in nd_trans_keys |-> reps_transformed(transition_list, nd_list, k)] :
         nd_list \in {reps_nd_list(transition_list)}} : TRUE

(***************************************************************************)
(* step with the objects of Python made explicit.  A heap is the sequence  *)
(* of the values of the objects allocated so far (lists for the bit-board  *)
(* engine, arrays for the dense one); a reference is an index into it.     *)
(* An operation returns the heap it leaves and the reference it returns.   *)
(***************************************************************************)
\* mutant: the input list is updated in place and returned
BBH_get_next_board_in_place(h, sref, a) ==
    [heap |-> [h EXCEPT ![sref] = BB_get_next_board(h[sref], a)], ref |-> sref]

\* _get_next_board(s, a): `return [board_p, board_notp, p]`, a new list
BBH_get_next_board(h, sref, a) ==
    [heap |-> Append(h, BB_get_next_board(h[sref], a)), ref |-> Len(h) + 1]

\* `s_next[2] = v`
BBH_set_player(h, ref, v) == [h EXCEPT ![ref] = [h[ref] EXCEPT ![2] = v]]

\* StateEnvBitBoard.step from the first _legal_moves_helper call on; the
\* helper and the comparisons only read
BBH_step_moved(h, ref) ==
    IF BB_legal_moves_helper(h[ref]) = {} /\ ~BB_board_full(h[ref])
    THEN [heap |-> BBH_set_player(h, ref, BB_other(h[ref][2])), s_next |-> ref]
    ELSE [heap |-> h, s_next |-> ref]

\* StateEnvBitBoard.step(s, a), s the object at sref
BBH_step(h, sref, a) ==
    CHOOSE r \in {BBH_step_moved(BBH_set_player(n.heap, n.ref,
                                                BB_other(n.heap[sref][2])), n.ref) :
                    n \in {BBH_get_next_board(h, sref, a)}} : TRUE

\* StateEnv._legal_moves_helper(s, row, col, play): `s_new = s.copy()`, the
\* writes of play mode into s_new, and `return ..., s_new.copy()`
SEH_legal_moves_helper(h, sref, row, col, play) ==
    CHOOSE r \in {[heap |-> Append(Append(h, s_new), s_new), ref |-> Len(h) + 2] :
                    s_new \in {IF play THEN SE_play(h[sref], row, col) ELSE h[sref]}} : TRUE

\* `s_next[:,:,2] = v`
SEH_set_player(h, ref, v) == [h EXCEPT ![ref] = SE_set_player(h[ref], v)]

\* StateEnv.step from `if(legal_moves.sum() == 0)` on: m is the result of the
\* second helper call, legal_moves its grid
SEH_step_first(m, sref, legal_moves) ==
    IF grid_sum(legal_moves) = 0 /\ SE_coin_sum(m.heap[m.ref]) # Size * Size
    THEN [heap |-> SEH_legal_moves_helper(
                       SEH_set_player(m.heap, m.ref, m.heap[sref][0][0][2]),
                       m.ref, 0, 0, FALSE).heap,
          s_next |-> m.ref]
    ELSE [heap |-> m.heap, s_next |-> m.ref]

\* StateEnv.step from `s_next[:,:,2] = abs(s[0,0,2]-1)` on: n is the result
\* of the helper call in play mode
SEH_step_moved(n, sref) ==
    CHOOSE r \in {SEH_step_first(m, sref, SE_legal_moves(m.heap[m.ref])) :
                    m \in {SEH_legal_moves_helper(
                               SEH_set_player(n.heap, n.ref,
                                              SE_flip_player(n.heap[sref][0][0][2])),
                               n.ref, 0, 0, FALSE)}} : TRUE

\* StateEnv.step(s, a), s the object at sref
SEH_step(h, sref, a) ==
    CHOOSE r \in {SEH_step_moved(n, sref) :
                    n \in {SEH_legal_moves_helper(h, sref, a \div Size, a % Size, TRUE)}} : TRUE

(***************************************************************************)
(* The constructors of the two engines.  An object is the record of its    *)
(* class and attributes; raised tells whether __init__ raised.             *)
(***************************************************************************)
\* StateEnv.__init__: `board_size if board_size%2 == 0 else board_size+1`
SE_init(board_size) ==
    [class |-> "StateEnv",
     _size |-> IF board_size % 2 = 0 THEN board_size ELSE board_size + 1,
     raised |-> FALSE]

\* StateEnvBitBoard.__init__: `self._size = 8`, whatever board_size is
BB_init(board_size) ==
    [class |-> "StateEnvBitBoard", _size |-> Size, raised |-> FALSE]

\* no object constructed yet
no_env == [class |-> "none", _size |-> 0, raised |-> FALSE]

(***************************************************************************)
(* Game.play, with StateEnv run side by side on the same cells.            *)
(***************************************************************************)
VARIABLES
    board_size,      \* the board_size argument of the constructor
    env,             \* the engine constructed (Game._env), no_env before
    pc,              \* "play": in the while loop of Game.play; "finished": returned
    p,               \* Game._p: side -> the policy of the agent playing it
    s,               \* Game.play: current bitboard state
    legal_moves,     \* Game.play: legal-move mask of s
    current_player,  \* Game.play: side to move
    done,            \* Game.play: done flag of the last step
    hist_len,        \* len(Game._hist)
    asked,           \* the calls of an agent's move made so far, in order
    hist_front,      \* the records of Game._hist before the last one
    hist_tail,       \* the last record of Game._hist, <<>> while it is empty
    winner,          \* <<>> until Game.play returns, then <<the value returned>>
    ds,              \* StateEnv: current dense state
    dlegal_moves,    \* StateEnv: legal-move grid of ds
    dplayer,         \* StateEnv: side to move
    ddone,           \* StateEnv: done flag of the last step
    dhist_tail,      \* StateEnv: the last transition, <<>> before the first
    shift_x,         \* a 64-bit cell set handed to a direction's shift
    shift_k,         \* the direction applied to shift_x, "none" before
    shift_out,       \* <<dictionary form, unrolled form>> of the shifted set
    conv_in,         \* two linear positions handed to StateConverter.convert
    conv_out,        \* their conversions, <<>> before
    reps             \* what Game.create_board_reps returned, <<>> before

vars == <<board_size, env, pc, p, s, legal_moves, current_player, done, hist_len,
          asked, hist_front, hist_tail,
          winner, ds, dlegal_moves, dplayer, ddone, dhist_tail,
          shift_x, shift_k, shift_out, conv_in, conv_out, reps>>

\* create_board_reps has not been called
no_reps == reps = <<>>

conv_vars == <<conv_in, conv_out>>

\* no conversion is being looked at
no_conv == conv_in = <<0, 0>> /\ conv_out = <<>>

shift_vars == <<shift_x, shift_k, shift_out>>

\* no shift is being looked at
no_shift == shift_x = {} /\ shift_k = "none" /\ shift_out = <<{}, {}>>

\* the move policies of the agents handed to Game
Policies == {"lowest", "highest", "median"}

Positions == 0..(Size * Size - 1)

\* the cells of a legal-move grid, as linear positions
grid_positions(g) == {a \in Positions : g[a \div Size][a % Size] = 1}

SetMin(S) == CHOOSE x \in S : \A y \in S : x <= y
SetMax(S) == CHOOSE x \in S : \A y \in S : x >= y
\* the element of S with Cardinality(S) \div 2 elements below it
SetMedian(S) ==
    CHOOSE x \in S : Cardinality({y \in S : y < x}) = Cardinality(S) \div 2

\* the positions an agent may return from move(state, legal-move grid), L
\* being the legal cells: any of them during the opening plies, then the one
\* its policy names
agent_choice(policy, L, ply) ==
        IF L = {} THEN {}
        ELSE IF ply < FreeMoves THEN L
        ELSE IF policy = "lowest" THEN {SetMin(L)}
        ELSE IF policy = "highest" THEN {SetMax(L)}
        ELSE {SetMedian(L)}

agent_move(policy, grid, ply) == agent_choice(policy, grid_positions(grid), ply)

Init ==
    /\ board_size = Size
    /\ env = BB_init(board_size)
    /\ pc = "play"
    /\ \E p1 \in Policies, p2 \in Policies, swap \in BOOLEAN :
           p = IF swap THEN (0 :> p1) @@ (1 :> p2) ELSE (1 :> p1) @@ (0 :> p2)
    /\ \E r \in {BB_reset} :
           /\ s = r.s
           /\ legal_moves = r.legal_moves
           /\ current_player = r.player
    /\ done = 0
    /\ hist_len = 0
    /\ asked = <<>>
    /\ hist_front = <<>>
    /\ hist_tail = <<>>
    /\ winner = <<>>
    /\ \E r \in {SE_reset} :
           /\ ds = r.s
           /\ dlegal_moves = r.legal_moves
           /\ dplayer = r.player
    /\ ddone = 0
    /\ dhist_tail = <<>>
    /\ no_shift
    /\ no_conv
    /\ no_reps

\* mutant: the agent of the other side is asked
play_ask_other_side(agents, player, state, grid) ==
    [side |-> 1 - player, agent |-> agents[1 - player],
     to_move |-> state[2], cells |-> grid_positions(grid)]

\* `self._p[current_player].move(...)`: the key the agent is looked up with,
\* the agent found, the side to move of the state it is shown and the cells
\* of the legal-move grid it is given
play_ask(agents, player, state, grid) ==
    [side |-> player, agent |-> agents[player],
     to_move |-> state[2], cells |-> grid_positions(grid)]

\* mutant: the loop keeps the side that has just moved as current_player
play_setup_next_keeps_player(r) ==
    [s |-> r.s_next, current_player |-> 1 - r.next_player,
     legal_moves |-> r.legal_moves]

\* "setup for next iteration of loop": `s = next_s.copy()`,
\* `current_player = next_player`, `legal_moves = next_legal_moves`, r being
\* what step returned
play_setup_next(r) ==
    [s |-> r.s_next, current_player |-> r.next_player,
     legal_moves |-> r.legal_moves]

\* one iteration of the while loop of Game.play
PlayMove ==
    /\ pc = "play"
    /\ done = 0
    /\ \E grid \in {convert(legal_moves, "bitboard_single", "ndarray")} :
       \E q \in {play_ask(p, current_player, s, grid)} :
       \E pos \in agent_move(q.agent, grid, hist_len) :
       \E a \in {convert(pos, "position", "bitboard_single")} :
       \E r \in {BB_step(s, a)} :
       \E dr \in {SE_step(ds, pos)} :
              /\ asked' = Append(asked, q)
              /\ hist_tail' = << [s |-> s, legal_moves |-> legal_moves,
                                  current_player |-> current_player, a |-> a,
                                  next_s |-> r.s_next,
                                  next_legal_moves |-> r.legal_moves,
                                  next_player |-> r.next_player,
                                  done |-> r.done, winner |-> -1,
                                  calls |-> r.calls] >>
              /\ hist_front' = hist_front \o hist_tail
              /\ hist_len' = hist_len + 1
              /\ \E nxt \in {play_setup_next(r)} :
                     /\ s' = nxt.s
                     /\ current_player' = nxt.current_player
                     /\ legal_moves' = nxt.legal_moves
              /\ done' = r.done
              /\ dhist_tail' = << [s |-> ds, legal_moves |-> dlegal_moves,
                                   current_player |-> dplayer, a |-> pos,
                                   next_s |-> dr.s_next,
                                   next_legal_moves |-> dr.legal_moves,
                                   next_player |-> dr.next_player,
                                   done |-> dr.done, calls |-> dr.calls,
                                   flip |-> SE_flip_player(ds[0][0][2])] >>
              /\ ds' = dr.s_next
              /\ dlegal_moves' = dr.legal_moves
              /\ dplayer' = dr.next_player
              /\ ddone' = dr.done
    /\ UNCHANGED <<board_size, env, pc, p, winner>>
    /\ UNCHANGED shift_vars
    /\ UNCHANGED conv_vars
    /\ UNCHANGED reps

\* the code after the loop: count the coins and name the winner
DetermineWinner ==
    /\ pc = "play"
    /\ done # 0
    /\ \E bw \in {BB_count_coins(s)} :
       \E win \in {IF bw[1] > bw[2] THEN 0 ELSE IF bw[2] > bw[1] THEN 1 ELSE -1} :
           /\ winner' = <<win>>
           /\ hist_tail' = << [hist_tail[1] EXCEPT !.winner = win] >>
    /\ pc' = "finished"
    /\ UNCHANGED <<board_size, env, p, s, legal_moves, current_player, done,
                   hist_len, asked, hist_front, ds, dlegal_moves, dplayer, ddone,
                   dhist_tail>>
    /\ UNCHANGED shift_vars
    /\ UNCHANGED conv_vars
    /\ UNCHANGED reps

Next == PlayMove \/ DetermineWinner

Spec == Init /\ [][Next]_vars

\* Game.play is sequential code: while an iteration of its loop or the code
\* after the loop can run, it does run
LiveSpec == Spec /\ WF_vars(PlayMove) /\ WF_vars(DetermineWinner)

(***************************************************************************)
(* step called by a caller that does not keep to the legal-move set.       *)
(***************************************************************************)
\* both engines' step on the same cell, any cell that is not a legal one;
\* the results are kept as in PlayMove and the game is not played on
StepAnyCell ==
    /\ pc = "play"
    /\ done = 0
    /\ hist_len <= MaxPliesBefore
    /\ \E pos \in Positions \ grid_positions(dlegal_moves) :
       \E a \in {convert(pos, "position", "bitboard_single")} :
       \E r \in {BB_step(s, a)} :
       \E dr \in {SE_step(ds, pos)} :
              /\ hist_tail' = << [s |-> s, legal_moves |-> legal_moves,
                                  current_player |-> current_player, a |-> a,
                                  next_s |-> r.s_next,
                                  next_legal_moves |-> r.legal_moves,
                                  next_player |-> r.next_player,
                                  done |-> r.done, winner |-> -1,
                                  calls |-> r.calls] >>
              /\ hist_front' = hist_front \o hist_tail
              /\ hist_len' = hist_len + 1
              /\ \E nxt \in {play_setup_next(r)} :
                     /\ s' = nxt.s
                     /\ current_player' = nxt.current_player
                     /\ legal_moves' = nxt.legal_moves
              /\ done' = r.done
              /\ dhist_tail' = << [s |-> ds, legal_moves |-> dlegal_moves,
                                   current_player |-> dplayer, a |-> pos,
                                   next_s |-> dr.s_next,
                                   next_legal_moves |-> dr.legal_moves,
                                   next_player |-> dr.next_player,
                                   done |-> dr.done, calls |-> dr.calls,
                                   flip |-> SE_flip_player(ds[0][0][2])] >>
              /\ ds' = dr.s_next
              /\ dlegal_moves' = dr.legal_moves
              /\ dplayer' = dr.next_player
              /\ ddone' = dr.done
    /\ pc' = "off_contract"
    /\ UNCHANGED <<board_size, env, p, winner, asked>>
    /\ UNCHANGED shift_vars
    /\ UNCHANGED conv_vars
    /\ UNCHANGED reps

AnyCellNext == PlayMove \/ DetermineWinner \/ StepAnyCell

AnyCellSpec == Init /\ [][AnyCellNext]_vars

(***************************************************************************)
(* StateEnv.step run under NumPy 2 as well as under NumPy 1.               *)
(***************************************************************************)
\* StateEnv.step alone, on a legal cell, with NumPy 2's scalar promotion;
\* the bit-board game is not played on
StepNumpy2 ==
    /\ pc = "play"
    /\ ddone = 0
    /\ \E pos \in grid_positions(dlegal_moves) :
       \E out \in {SE_step_numpy2(ds, pos)} :
              /\ dhist_tail' = << [s |-> ds, legal_moves |-> dlegal_moves,
                                   current_player |-> dplayer, a |-> pos,
                                   next_s |-> out.r.s_next,
                                   next_legal_moves |-> out.r.legal_moves,
                                   next_player |-> out.r.next_player,
                                   done |-> out.r.done, calls |-> out.r.calls,
                                   flip |-> out.flip] >>
              /\ IF out.raised
                 THEN /\ pc' = "raised"
                      /\ UNCHANGED <<ds, dlegal_moves, dplayer, ddone>>
                 ELSE /\ pc' = "dense_only"
                      /\ ds' = out.r.s_next
                      /\ dlegal_moves' = out.r.legal_moves
                      /\ dplayer' = out.r.next_player
                      /\ ddone' = out.r.done
    /\ UNCHANGED <<board_size, env, p, s, legal_moves, current_player, done, hist_len,
                   asked, hist_front, hist_tail, winner>>
    /\ UNCHANGED shift_vars
    /\ UNCHANGED conv_vars
    /\ UNCHANGED reps

Numpy2Next == PlayMove \/ DetermineWinner \/ StepNumpy2

Numpy2Spec == Init /\ [][Numpy2Next]_vars

(***************************************************************************)
(* Construction of an engine with any board_size of BoardSizes.            *)
(***************************************************************************)
BoardSizes == (0 - MaxBoardSize)..MaxBoardSize

\* before the constructor call: no game is being played
CtorInit ==
    /\ board_size \in BoardSizes
    /\ env = no_env
    /\ pc = "construct"
    /\ p = <<>>
    /\ s = <<>>
    /\ legal_moves = {}
    /\ current_player = 1
    /\ done = 0
    /\ hist_len = 0
    /\ asked = <<>>
    /\ hist_front = <<>>
    /\ hist_tail = <<>>
    /\ winner = <<>>
    /\ ds = <<>>
    /\ dlegal_moves = <<>>
    /\ dplayer = 1
    /\ ddone = 0
    /\ dhist_tail = <<>>
    /\ no_shift
    /\ no_conv
    /\ no_reps

\* StateEnv(board_size)
ConstructStateEnv ==
    /\ pc = "construct"
    /\ env' = SE_init(board_size)
    /\ pc' = "constructed"
    /\ UNCHANGED <<board_size, p, s, legal_moves, current_player, done, hist_len,
                   asked, hist_front, hist_tail, winner, ds, dlegal_moves, dplayer,
                   ddone, dhist_tail>>
    /\ UNCHANGED shift_vars
    /\ UNCHANGED conv_vars
    /\ UNCHANGED reps

\* StateEnvBitBoard(board_size)
ConstructStateEnvBitBoard ==
    /\ pc = "construct"
    /\ env' = BB_init(board_size)
    /\ pc' = "constructed"
    /\ UNCHANGED <<board_size, p, s, legal_moves, current_player, done, hist_len,
                   asked, hist_front, hist_tail, winner, ds, dlegal_moves, dplayer,
                   ddone, dhist_tail>>
    /\ UNCHANGED shift_vars
    /\ UNCHANGED conv_vars
    /\ UNCHANGED reps

CtorNext == ConstructStateEnv \/ ConstructStateEnvBitBoard

CtorSpec == CtorInit /\ [][CtorNext]_vars

(***************************************************************************)
(* The shift of one direction applied to a cell set, apart from any game.  *)
(***************************************************************************)
\* the sets of at most n elements of S
RECURSIVE UpTo(_, _)
UpTo(S, n) ==
    IF n = 0 THEN {{}}
    ELSE CHOOSE r \in {smaller \cup {y \cup {b} : y \in smaller, b \in S} :
                         smaller \in {UpTo(S, n - 1)}} : TRUE

\* an engine has been constructed; any set of at most MaxShiftCells cells
ShiftInit ==
    /\ board_size = Size
    /\ env = BB_init(board_size)
    /\ pc = "shift"
    /\ p = <<>>
    /\ s = <<>>
    /\ legal_moves = {}
    /\ current_player = 1
    /\ done = 0
    /\ hist_len = 0
    /\ asked = <<>>
    /\ hist_front = <<>>
    /\ hist_tail = <<>>
    /\ winner = <<>>
    /\ ds = <<>>
    /\ dlegal_moves = <<>>
    /\ dplayer = 1
    /\ ddone = 0
    /\ dhist_tail = <<>>
    /\ shift_x \in UpTo(0..(Size * Size - 1), MaxShiftCells)
    /\ shift_k = "none"
    /\ shift_out = <<{}, {}>>
    /\ no_conv
    /\ no_reps

\* one direction's shift and mask applied to shift_x
ApplyShift ==
    /\ pc = "shift"
    /\ \E k \in directions :
           /\ shift_k' = k
           /\ shift_out' = <<shift_and_mask(k, shift_x),
                             unrolled_shift_and_mask(k, shift_x)>>
    /\ pc' = "shifted"
    /\ UNCHANGED <<board_size, env, p, s, legal_moves, current_player, done, hist_len,
                   asked, hist_front, hist_tail, winner, ds, dlegal_moves, dplayer,
                   ddone, dhist_tail, shift_x>>
    /\ UNCHANGED conv_vars
    /\ UNCHANGED reps

ShiftNext == ApplyShift

ShiftSpec == ShiftInit /\ [][ShiftNext]_vars

(***************************************************************************)
(* StateConverter.convert applied to positions, apart from any game.       *)
(***************************************************************************)
\* a converter has been constructed; any two linear positions
ConvInit ==
    /\ board_size = Size
    /\ env = BB_init(board_size)
    /\ pc = "convert"
    /\ p = <<>>
    /\ s = <<>>
    /\ legal_moves = {}
    /\ current_player = 1
    /\ done = 0
    /\ hist_len = 0
    /\ asked = <<>>
    /\ hist_front = <<>>
    /\ hist_tail = <<>>
    /\ winner = <<>>
    /\ ds = <<>>
    /\ dlegal_moves = <<>>
    /\ dplayer = 1
    /\ ddone = 0
    /\ dhist_tail = <<>>
    /\ no_shift
    /\ conv_in \in Positions \X Positions
    /\ conv_out = <<>>
    /\ no_reps

\* both positions converted to 'bitboard_single', and the first one's bit
\* converted on to 'ndarray'
ApplyConvert ==
    /\ pc = "convert"
    /\ \E b1 \in {convert(conv_in[1], "position", "bitboard_single")} :
       \E b2 \in {convert(conv_in[2], "position", "bitboard_single")} :
           conv_out' = <<b1, b2, convert(b1, "bitboard_single", "ndarray")>>
    /\ pc' = "converted"
    /\ UNCHANGED <<board_size, env, p, s, legal_moves, current_player, done, hist_len,
                   asked, hist_front, hist_tail, winner, ds, dlegal_moves, dplayer,
                   ddone, dhist_tail, conv_in>>
    /\ UNCHANGED shift_vars
    /\ UNCHANGED reps

ConvNext == ApplyConvert

ConvSpec == ConvInit /\ [][ConvNext]_vars

(***************************************************************************)
(* Game.play followed by Game.create_board_reps on a record of the         *)
(* history.                                                                *)
(***************************************************************************)
\* the nine entries of a record of self._hist
hist_entry(h) ==
    [s |-> h.s, legal_moves |-> h.legal_moves, current_player |-> h.current_player,
     a |-> h.a, next_s |-> h.next_s, next_legal_moves |-> h.next_legal_moves,
     next_player |-> h.next_player, done |-> h.done, winner |-> h.winner]

\* create_board_reps(self._hist[-1]), during or after the game
CreateBoardReps ==
    /\ pc \in {"play", "finished"}
    /\ hist_len >= 1
    /\ reps' = create_board_reps(hist_entry(hist_tail[1]))
    /\ pc' = "reps"
    /\ UNCHANGED <<board_size, env, p, s, legal_moves, current_player, done,
                   hist_len, asked, hist_front, hist_tail, winner, ds,
                   dlegal_moves, dplayer, ddone, dhist_tail>>
    /\ UNCHANGED shift_vars
    /\ UNCHANGED conv_vars

RepsNext == PlayMove \/ DetermineWinner \/ CreateBoardReps

\* the games in which the agent of side 0 has the policy "highest"; they
\* end both on full boards and on boards that neither side can move on
RepsInit == Init /\ p[0] = "highest"

RepsSpec == RepsInit /\ [][RepsNext]_vars

(***************************************************************************)
(* The rules of the game stated on cells, for the properties below.  A     *)
(* position is seen as the pair of the sets of cells <<row, col>> held by  *)
(* side 0 (black) and by side 1 (white).                                   *)
(***************************************************************************)
Cells == Rows \X Rows

\* the bit of a packed mask that stands for a cell: row-major, cell <<0, 0>>
\* on the highest bit
CellBit(c) == (Size * Size - 1) - (c[1] * Size + c[2])

CellsMask(C) == {CellBit(c) : c \in C}

CellsGrid(C) == [row \in Rows |-> [col \in Rows |-> IF <<row, col>> \in C THEN 1 ELSE 0]]

Discs(black, white) == (0 :> black) @@ (1 :> white)

\* the discs seen in a bitboard state and in a dense state
BB_discs(st) ==
    Discs({c \in Cells : CellBit(c) \in st[0]}, {c \in Cells : CellBit(c) \in st[1]})

SE_discs(g) ==
    Discs({c \in Cells : g[c[1]][c[2]][0] = 1}, {c \in Cells : g[c[1]][c[2]][1] = 1})

Occupied(D) == D[0] \cup D[1]

Compass == {d \in {-1, 0, 1} \X {-1, 0, 1} : d # <<0, 0>>}

Along(c, d, j) == <<c[1] + j * d[1], c[2] + j * d[2]>>

\* from cell c in direction d: exactly k opposing discs, then a disc of mover
RunOf(D, c, d, mover, k) ==
    /\ \A j \in 1..k : Along(c, d, j) \in D[1 - mover]
    /\ Along(c, d, k + 1) \in D[mover]

\* the discs captured from c in direction d (a run starts on the neighbour of c)
RunCells(D, c, d, mover) ==
    IF Along(c, d, 1) \in D[1 - mover]
    THEN UNION {{Along(c, d, j) : j \in 1..k} :
                  k \in {n \in 1..(Size - 2) : RunOf(D, c, d, mover, n)}}
    ELSE {}

RefCaptured(D, c, mover) == UNION {RunCells(D, c, d, mover) : d \in Compass}

RefLegal(D, mover) ==
    {c \in Cells \ Occupied(D) :
        \E d \in Compass :
            /\ Along(c, d, 1) \in D[1 - mover]
            /\ \E k \in 1..(Size - 2) : RunOf(D, c, d, mover, k)}

\* the position after mover plays on c and turns over the set cap
RefPlaced(D, c, mover, cap) ==
    [side \in {0, 1} |-> IF side = mover THEN D[side] \cup {c} \cup cap
                         ELSE D[side] \ cap]

RefApply(D, c, mover) == RefPlaced(D, c, mover, RefCaptured(D, c, mover))

(***************************************************************************)
(* C1.  In every state reached from reset() by legal step() calls no cell  *)
(* is held by both sides: the two masks of StateEnvBitBoard have no common *)
(* bit, and in StateEnv the two coin channels of a cell sum to at most 1.  *)
(***************************************************************************)
C1_NoCellHeldByBoth ==
    /\ s[0] \cap s[1] = {}
    /\ \A c \in Cells : ds[c[1]][c[2]][0] + ds[c[1]][c[2]][1] <= 1

\* a step has been applied and turned over discs, in both engines
C1_Witness ==
    /\ hist_len >= 2
    /\ (hist_tail[1].next_s[hist_tail[1].current_player]
            \cap hist_tail[1].s[1 - hist_tail[1].current_player]) # {}
    /\ \E c \in Cells :
           /\ dhist_tail[1].s[c[1]][c[2]][1 - dhist_tail[1].current_player] = 1
           /\ dhist_tail[1].next_s[c[1]][c[2]][dhist_tail[1].current_player] = 1

(***************************************************************************)
(* C2.  Across legal step() calls a cell that is occupied stays occupied,  *)
(* by either side: every step keeps every occupied cell occupied, so it is *)
(* occupied in every later state.                                          *)
(***************************************************************************)
C2_OccupiedStaysOccupied ==
    [][ /\ (s[0] \cup s[1]) \subseteq (s'[0] \cup s'[1])
        /\ Occupied(SE_discs(ds)) \subseteq Occupied(SE_discs(ds')) ]_vars

\* a step has turned over at least two discs and none has left the board
C2_Witness ==
    /\ hist_len >= 1
    /\ Cardinality(hist_tail[1].next_s[hist_tail[1].current_player]
                     \cap hist_tail[1].s[1 - hist_tail[1].current_player]) >= 2
    /\ (hist_tail[1].s[0] \cup hist_tail[1].s[1])
           \subseteq (hist_tail[1].next_s[0] \cup hist_tail[1].next_s[1])
    /\ Occupied(SE_discs(dhist_tail[1].s)) \subseteq Occupied(SE_discs(dhist_tail[1].next_s))

(***************************************************************************)
(* C3.  For the occupancy of every reachable state and either side to      *)
(* move, the legal-move set computed by each engine's _legal_moves_helper  *)
(* is exactly the set of empty cells from which some direction passes over *)
(* one or more consecutive opposing discs and then reaches a disc of the   *)
(* side to move; no occupied cell is in the set.                           *)
(***************************************************************************)
C3_LegalMovesExact ==
    \A q \in {0, 1} :
        /\ \A D \in {BB_discs(s)} :
           \A m \in {BB_legal_moves_helper([s EXCEPT ![2] = q])} :
               /\ m = CellsMask(RefLegal(D, q))
               /\ m \cap (s[0] \cup s[1]) = {}
        /\ \A D \in {SE_discs(ds)} :
           \A g \in {SE_legal_moves(SE_set_player(ds, q))} :
               /\ g = CellsGrid(RefLegal(D, q))
               /\ \A c \in Occupied(D) : g[c[1]][c[2]] = 0

\* the side to move has a legal cell that captures a run of two or more, and
\* an empty cell next to an opposing disc that is left out because the run
\* ends on an empty cell or on the edge
C3_Witness ==
    /\ done = 0
    /\ \E c \in Cells : \E d \in Compass : \E k \in 2..(Size - 2) :
           /\ CellBit(c) \in legal_moves
           /\ dlegal_moves[c[1]][c[2]] = 1
           /\ RunOf(BB_discs(s), c, d, s[2], k)
    /\ \E c \in Cells \ Occupied(BB_discs(s)) : \E d \in Compass :
           /\ Along(c, d, 1) \in BB_discs(s)[1 - s[2]]
           /\ CellBit(c) \notin legal_moves
           /\ dlegal_moves[c[1]][c[2]] = 0

(***************************************************************************)
(* C4.  For every reachable state and every cell of the legal-move set     *)
(* reported for it, applying that cell (_get_next_board, the helper with   *)
(* play=True, and step for the cell that was played) turns at least one    *)
(* disc of the opposing side into a disc of the mover.                     *)
(***************************************************************************)
C4_LegalMoveTurnsADisc ==
    /\ \A b \in legal_moves :
       \A n \in {BB_get_next_board(s, {b})} :
           (n[s[2]] \cap s[1 - s[2]]) \ n[1 - s[2]] # {}
    /\ \A pos \in grid_positions(dlegal_moves) :
       \A n \in {SE_play(ds, pos \div Size, pos % Size)} :
           \E c \in Cells :
               /\ ds[c[1]][c[2]][1 - ds[0][0][2]] = 1
               /\ n[c[1]][c[2]][ds[0][0][2]] = 1
               /\ n[c[1]][c[2]][1 - ds[0][0][2]] = 0
    /\ hist_len >= 1 =>
           /\ \A h \in {hist_tail[1]} :
                  (h.next_s[h.current_player] \cap h.s[1 - h.current_player])
                      \ h.next_s[1 - h.current_player] # {}
           /\ \A h \in {dhist_tail[1]} : \E c \in Cells :
                  /\ h.s[c[1]][c[2]][1 - h.current_player] = 1
                  /\ h.next_s[c[1]][c[2]][h.current_player] = 1
                  /\ h.next_s[c[1]][c[2]][1 - h.current_player] = 0

\* a state with three or more legal cells, one of which turns three or more discs
C4_Witness ==
    /\ Cardinality(legal_moves) >= 3
    /\ Cardinality(grid_positions(dlegal_moves)) >= 3
    /\ \E b \in legal_moves :
           Cardinality(BB_get_next_board(s, {b})[s[2]] \cap s[1 - s[2]]) >= 3

(***************************************************************************)
(* C5.  Applying a legal cell places the mover's disc on it and turns over *)
(* exactly the union, over the eight directions, of the runs of opposing   *)
(* discs that start next to the cell and end on a disc of the mover; a run *)
(* ending on an empty cell or on the edge turns nothing; every other cell  *)
(* keeps its content and the turn marker is not changed.                   *)
(***************************************************************************)
C5_ApplyIsPlaceAndFlipRuns ==
    /\ \A D \in {BB_discs(s)} :
       \A c \in {x \in Cells : CellBit(x) \in legal_moves} :
       \A n \in {BB_get_next_board(s, {CellBit(c)})} :
       \A R \in {RefApply(D, c, s[2])} :
           /\ n[0] = CellsMask(R[0])
           /\ n[1] = CellsMask(R[1])
           /\ n[2] = s[2]
    /\ \A D \in {SE_discs(ds)} :
       \A c \in {x \in Cells : dlegal_moves[x[1]][x[2]] = 1} :
       \A n \in {SE_play(ds, c[1], c[2])} :
       \A R \in {RefApply(D, c, ds[0][0][2])} :
       \A x \in Cells :
           /\ n[x[1]][x[2]][0] = (IF x \in R[0] THEN 1 ELSE 0)
           /\ n[x[1]][x[2]][1] = (IF x \in R[1] THEN 1 ELSE 0)
           /\ n[x[1]][x[2]][2] = ds[x[1]][x[2]][2]

\* a legal cell that captures in two directions and has, in a third, an
\* opposing neighbour whose run ends on an empty cell or on the edge
C5_Witness ==
    \E c \in {x \in Cells : CellBit(x) \in legal_moves /\ dlegal_moves[x[1]][x[2]] = 1} :
        /\ Cardinality({d \in Compass : RunCells(BB_discs(s), c, d, s[2]) # {}}) >= 2
        /\ \E d \in Compass :
               /\ Along(c, d, 1) \in BB_discs(s)[1 - s[2]]
               /\ RunCells(BB_discs(s), c, d, s[2]) = {}

(***************************************************************************)
(* C6.  For every reachable bit-board state, the legal-move mask of the    *)
(* bit-board engine and the legal-move grid the dense engine computes for  *)
(* the converted state denote the same set of cells.                       *)
(***************************************************************************)
C6_LegalMaskMatchesDenseGrid ==
    \A m \in {BB_legal_moves_helper(s)} :
    \A g \in {SE_legal_moves(convert(s, "bitboard", "ndarray3d"))} :
        /\ convert(m, "bitboard_single", "ndarray") = g
        /\ \A c \in Cells : (CellBit(c) \in m) <=> (g[c[1]][c[2]] = 1)

\* a position, black and white each to move once, with legal cells for the side to move
C6_Witness ==
    /\ hist_len >= 2
    /\ BB_legal_moves_helper(s) # {}
    /\ grid_sum(SE_legal_moves(convert(s, "bitboard", "ndarray3d"))) =
           Cardinality(BB_legal_moves_helper(s))
    /\ BB_legal_moves_helper([s EXCEPT ![2] = 1 - s[2]]) # BB_legal_moves_helper(s)

(***************************************************************************)
(* C7.  The two engines, driven side by side with the same moves from the  *)
(* start position, agree after reset and after every step on the discs of  *)
(* both sides, the legal-move set, the next player and the done flag.      *)
(***************************************************************************)
C7_EnginesAgree ==
    /\ BB_discs(s) = SE_discs(ds)
    /\ s[2] = ds[0][0][2]
    /\ \A c \in Cells : (CellBit(c) \in legal_moves) <=> (dlegal_moves[c[1]][c[2]] = 1)
    /\ legal_moves \subseteq 0..(Size * Size - 1)
    /\ current_player = dplayer
    /\ done = ddone

\* both engines have reached the end of a game on a full board
C7_Witness ==
    /\ done = 1
    /\ ddone = 1
    /\ BB_board_full(s)
    /\ SE_coin_sum(ds) = Size * Size

(***************************************************************************)
(* C8.  On reachable states the conversions between the bit-board and the  *)
(* three-channel grid are inverse to each other in both directions, and    *)
(* distinct states have distinct conversions.                              *)
(***************************************************************************)
C8_ConverterRoundTrip ==
    /\ \A g \in {convert(s, "bitboard", "ndarray3d")} :
           /\ convert(g, "ndarray3d", "bitboard") = s
           /\ hist_len >= 1 =>
                  \A t \in {hist_tail[1].s, [s EXCEPT ![2] = 1 - s[2]]} :
                      t # s => convert(t, "bitboard", "ndarray3d") # g
    /\ \A b \in {convert(ds, "ndarray3d", "bitboard")} :
           /\ convert(b, "bitboard", "ndarray3d") = ds
           /\ hist_len >= 1 =>
                  \A t \in {dhist_tail[1].s, SE_set_player(ds, 1 - ds[0][0][2])} :
                      t # ds => convert(t, "ndarray3d", "bitboard") # b

\* a state with discs off the main diagonals, black to move, differing from its predecessor
C8_Witness ==
    /\ hist_len >= 3
    /\ s[2] = 0
    /\ hist_tail[1].s # s
    /\ \E c \in Cells : c[1] # c[2] /\ c[1] + c[2] # Size - 1 /\ CellBit(c) \in s[1]
    /\ convert(ds, "ndarray3d", "bitboard") = s

(***************************************************************************)
(* C9.  When, after a move is applied, the opponent has at least one legal *)
(* move, step returns done = 0, the opponent as next player and the        *)
(* opponent's legal-move set, on the board the move produced.              *)
(***************************************************************************)
C9_NormalTurnPasses ==
    hist_len >= 1 =>
        /\ \A h \in {hist_tail[1]} :
           \A c \in {x \in Cells : CellBit(x) \in h.a} :
           \A D \in {RefApply(BB_discs(h.s), c, h.current_player)} :
           \A L \in {RefLegal(D, 1 - h.current_player)} :
               L # {} =>
                   /\ h.done = 0
                   /\ h.next_player = 1 - h.current_player
                   /\ h.next_s[2] = 1 - h.current_player
                   /\ h.next_legal_moves = CellsMask(L)
                   /\ BB_discs(h.next_s) = D
        /\ \A h \in {dhist_tail[1]} :
           \A D \in {RefApply(SE_discs(h.s), <<h.a \div Size, h.a % Size>>, h.current_player)} :
           \A L \in {RefLegal(D, 1 - h.current_player)} :
               L # {} =>
                   /\ h.done = 0
                   /\ h.next_player = 1 - h.current_player
                   /\ h.next_s[0][0][2] = 1 - h.current_player
                   /\ h.next_legal_moves = CellsGrid(L)
                   /\ SE_discs(h.next_s) = D

\* the last step was a move after which the opponent could move
C9_Witness ==
    /\ hist_len >= 2
    /\ hist_tail[1].next_player = 1 - hist_tail[1].current_player
    /\ dhist_tail[1].next_player = 1 - dhist_tail[1].current_player
    /\ RefLegal(BB_discs(hist_tail[1].next_s), 1 - hist_tail[1].current_player) # {}
    /\ hist_tail[1].done = 0

(***************************************************************************)
(* C10.  Forced pass: when, after a move is applied, the opponent has no   *)
(* legal move, the board is not full and the mover has at least one legal  *)
(* move, step returns done = 0, the original mover as next player, the     *)
(* mover's legal-move set, and the discs exactly as the move left them.    *)
(***************************************************************************)
C10_ForcedPass ==
    hist_len >= 1 =>
        /\ \A h \in {hist_tail[1]} :
           \A c \in {x \in Cells : CellBit(x) \in h.a} :
           \A D \in {RefApply(BB_discs(h.s), c, h.current_player)} :
           (RefLegal(D, 1 - h.current_player) = {} /\ Occupied(D) # Cells) =>
           \A L \in {RefLegal(D, h.current_player)} :
               L # {} =>
                   /\ h.done = 0
                   /\ h.next_player = h.current_player
                   /\ h.next_s[2] = h.current_player
                   /\ h.next_legal_moves = CellsMask(L)
                   /\ BB_discs(h.next_s) = D
        /\ \A h \in {dhist_tail[1]} :
           \A D \in {RefApply(SE_discs(h.s), <<h.a \div Size, h.a % Size>>, h.current_player)} :
           (RefLegal(D, 1 - h.current_player) = {} /\ Occupied(D) # Cells) =>
           \A L \in {RefLegal(D, h.current_player)} :
               L # {} =>
                   /\ h.done = 0
                   /\ h.next_player = h.current_player
                   /\ h.next_s[0][0][2] = h.current_player
                   /\ h.next_legal_moves = CellsGrid(L)
                   /\ SE_discs(h.next_s) = D

\* the last step was a forced pass: the opponent was skipped on a board that
\* is not full and the mover moves again
C10_Witness ==
    /\ hist_len >= 1
    /\ hist_tail[1].next_player = hist_tail[1].current_player
    /\ dhist_tail[1].next_player = dhist_tail[1].current_player
    /\ hist_tail[1].done = 0
    /\ hist_tail[1].calls = 2
    /\ ~BB_board_full(hist_tail[1].next_s)
    /\ RefLegal(BB_discs(hist_tail[1].next_s), 1 - hist_tail[1].current_player) = {}
    /\ hist_tail[1].next_legal_moves # {}

(***************************************************************************)
(* C11.  step returns done = 1 exactly when, on the board it returns,      *)
(* neither side has a legal move.  A full board ends the game after the    *)
(* first legal-move scan, without a scan for the original mover; a board   *)
(* that is not full ends it when both scans are empty.                     *)
(***************************************************************************)
C11_DoneIffNobodyCanMove ==
    hist_len >= 1 =>
        /\ \A h \in {hist_tail[1]} :
           \A D \in {BB_discs(h.next_s)} :
               /\ (h.done = 1) <=> (RefLegal(D, 0) = {} /\ RefLegal(D, 1) = {})
               /\ h.done \in {0, 1}
               /\ Occupied(D) = Cells => (h.done = 1 /\ h.calls = 1)
               /\ (h.done = 1 /\ Occupied(D) # Cells) => h.calls = 2
        /\ \A h \in {dhist_tail[1]} :
           \A D \in {SE_discs(h.next_s)} :
               /\ (h.done = 1) <=> (RefLegal(D, 0) = {} /\ RefLegal(D, 1) = {})
               /\ h.done \in {0, 1}
               /\ Occupied(D) = Cells => (h.done = 1 /\ h.calls = 1)
               /\ (h.done = 1 /\ Occupied(D) # Cells) => h.calls = 2

\* the last step ended the game on a board with empty cells left
C11_Witness ==
    /\ hist_len >= 1
    /\ hist_tail[1].done = 1
    /\ dhist_tail[1].done = 1
    /\ Occupied(BB_discs(hist_tail[1].next_s)) # Cells
    /\ hist_tail[1].calls = 2

(***************************************************************************)
(* C12.  For every step on a reachable state with a legal cell, the        *)
(* returned legal-move set is empty exactly when done = 1; hence in every  *)
(* state where the game is not over the side to move has a legal cell.     *)
(***************************************************************************)
C12_EmptyLegalSetIffDone ==
    /\ (legal_moves = {}) <=> (done = 1)
    /\ (grid_sum(dlegal_moves) = 0) <=> (ddone = 1)
    /\ hist_len >= 1 =>
           /\ (hist_tail[1].next_legal_moves = {}) <=> (hist_tail[1].done = 1)
           /\ (grid_positions(dhist_tail[1].next_legal_moves) = {})
                  <=> (dhist_tail[1].done = 1)

\* a terminal return carrying an empty set, and before it a state with legal cells
C12_Witness ==
    /\ hist_len >= 1
    /\ hist_tail[1].done = 1
    /\ hist_tail[1].next_legal_moves = {}
    /\ grid_sum(dhist_tail[1].next_legal_moves) = 0
    /\ hist_tail[1].legal_moves # {}
    /\ pc = "play"

(***************************************************************************)
(* C13.  Every play from reset() reaches done = 1 after at most            *)
(* Size * Size - 4 steps, and the loop of Game.play ends: eventually       *)
(* Game.play has returned, with done = 1 in both engines and at most       *)
(* Size * Size - 4 transitions in the history.                             *)
(***************************************************************************)
C13_PlayTerminates ==
    <>(/\ pc = "finished"
       /\ done = 1
       /\ ddone = 1
       /\ hist_len <= Size * Size - 4)

\* a game that took all Size * Size - 4 steps
C13_Witness ==
    /\ hist_len = Size * Size - 4
    /\ done = 1
    /\ pc = "finished"

(***************************************************************************)
(* C14.  reset() of both engines yields two discs per side on the four     *)
(* centre cells, side 1 on (3,3) and (4,4), side 0 on (3,4) and (4,3),     *)
(* side 1 to move and exactly four legal cells for it; the constants       *)
(* 34628173824 and 68853694464 encode the layout of the dense grid.  The   *)
(* state in which Game.play starts is the one returned by reset().         *)
(***************************************************************************)
C14_ResetIsStartPosition ==
    /\ \A r \in {BB_reset} :
           /\ BB_discs(r.s) = Discs({<<3, 4>>, <<4, 3>>}, {<<3, 3>>, <<4, 4>>})
           /\ r.s[0] \cup r.s[1] \subseteq 0..(Size * Size - 1)
           /\ r.s[2] = 1
           /\ r.player = 1
           /\ Cardinality(r.legal_moves) = 4
           /\ r.legal_moves = CellsMask({<<2, 4>>, <<3, 5>>, <<4, 2>>, <<5, 3>>})
           /\ hist_len = 0 => (s = r.s /\ legal_moves = r.legal_moves
                               /\ current_player = r.player)
    /\ \A r \in {SE_reset} :
           /\ SE_discs(r.s) = Discs({<<3, 4>>, <<4, 3>>}, {<<3, 3>>, <<4, 4>>})
           /\ \A c \in Cells : r.s[c[1]][c[2]][2] = 1
           /\ r.player = 1
           /\ grid_sum(r.legal_moves) = 4
           /\ r.legal_moves = CellsGrid({<<2, 4>>, <<3, 5>>, <<4, 2>>, <<5, 3>>})
           /\ hist_len = 0 => (ds = r.s /\ dlegal_moves = r.legal_moves
                               /\ dplayer = r.player)
    /\ convert(BBState(K34628173824, K68853694464, 1), "bitboard", "ndarray3d")
           = SE_reset.s

\* the state right after reset(), before any step
C14_Witness ==
    /\ hist_len = 0
    /\ pc = "play"
    /\ s = BB_reset.s
    /\ ds = SE_reset.s
    /\ Cardinality(legal_moves) = 4

(***************************************************************************)
(* C15.  From the start position, for each of the four legal cells of the  *)
(* first side (side 1), step turns exactly one opposing disc, leaving four *)
(* discs for the mover and one for the opponent, and returns done = 0 and  *)
(* the second side (side 0) as next player with at least one legal cell.   *)
(***************************************************************************)
C15_FirstMoveTurnsOneDisc ==
    /\ hist_len = 0 =>
           /\ \A b \in legal_moves :
              \A r \in {BB_step(s, {b})} :
                  /\ Cardinality(r.s_next[1] \cap s[0]) = 1
                  /\ BB_count_coins(r.s_next) = <<1, 4>>
                  /\ r.done = 0
                  /\ r.next_player = 0
                  /\ r.legal_moves # {}
           /\ \A pos \in grid_positions(dlegal_moves) :
              \A r \in {SE_step(ds, pos)} :
                  /\ Cardinality(SE_discs(r.s_next)[1] \cap SE_discs(ds)[0]) = 1
                  /\ SE_count_coins(r.s_next) = <<1, 4>>
                  /\ r.done = 0
                  /\ r.next_player = 0
                  /\ grid_sum(r.legal_moves) >= 1
    /\ hist_len = 1 =>
           /\ Cardinality(s[0]) = 1 /\ Cardinality(s[1]) = 4
           /\ SE_count_coins(ds) = <<1, 4>>
           /\ done = 0 /\ ddone = 0
           /\ current_player = 0 /\ dplayer = 0
           /\ legal_moves # {} /\ grid_positions(dlegal_moves) # {}

\* the state after the first step, taken from the start position
C15_Witness ==
    /\ hist_len = 1
    /\ hist_tail[1].s = BB_reset.s
    /\ dhist_tail[1].s = SE_reset.s
    /\ hist_tail[1].current_player = 1
    /\ Cardinality(hist_tail[1].next_s[1]) = 4

C17_InvalidSizeRejected ==
    (pc = "constructed" /\ (board_size % 2 # 0 \/ board_size <= 0)) =>
        /\ env.raised
        /\ env.class = "none"

(***************************************************************************)
(* C18.  Supplying to step a cell that is not in the current legal-move    *)
(* set (an occupied cell, or an empty cell that captures nothing) does not *)
(* corrupt the occupancy: in the returned state no cell is held by both    *)
(* sides and, the cell capturing nothing, no disc is changed, in both      *)
(* engines.                                                                *)
(***************************************************************************)
C18_IllegalCellLeavesBoardSound ==
    pc = "off_contract" =>
        /\ \A h \in {hist_tail[1]} :
           \A c \in {x \in Cells : CellBit(x) \in h.a} :
               /\ h.next_s[0] \cap h.next_s[1] = {}
               /\ RefCaptured(BB_discs(h.s), c, h.current_player) = {}
                      => (h.next_s[0] = h.s[0] /\ h.next_s[1] = h.s[1])
        /\ \A h \in {dhist_tail[1]} :
               /\ \A c \in Cells : h.next_s[c[1]][c[2]][0] + h.next_s[c[1]][c[2]][1] <= 1
               /\ RefCaptured(SE_discs(h.s), <<h.a \div Size, h.a % Size>>,
                              h.current_player) = {}
                      => SE_discs(h.next_s) = SE_discs(h.s)

(***************************************************************************)
(* C19.  step does not modify the state value passed in: after step(s, a)  *)
(* the object s of the caller, which the history keeps, holds the same     *)
(* occupancy and the same turn marker as before, in both engines; the      *)
(* state returned is another object, and it is the state the history       *)
(* records as next_s.                                                      *)
(***************************************************************************)
C19_StepLeavesInputUnchanged ==
    hist_len >= 1 =>
        /\ \A h \in {hist_tail[1]} :
           \A r \in {BBH_step(<<h.s>>, 1, h.a)} :
               /\ r.heap[1] = h.s
               /\ r.s_next # 1
               /\ r.heap[r.s_next] = h.next_s
        /\ \A h \in {dhist_tail[1]} :
           \A r \in {SEH_step(<<h.s>>, 1, h.a)} :
               /\ r.heap[1] = h.s
               /\ r.s_next # 1
               /\ r.heap[r.s_next] = h.next_s

\* the last step wrote the turn marker of its result twice (a forced pass)
C19_Witness ==
    /\ hist_len >= 1
    /\ hist_tail[1].calls = 2
    /\ dhist_tail[1].calls = 2
    /\ hist_tail[1].next_s[2] = hist_tail[1].s[2]
    /\ hist_tail[1].next_s # hist_tail[1].s

(***************************************************************************)
(* C20.  For every step on a reachable state with a legal cell, ending the *)
(* game or not, the legal-move set returned is the legal-move set of the   *)
(* returned state for the side its turn marker names, and next_player is   *)
(* that turn marker: the opponent of the mover when the opponent can move  *)
(* or the board is full, the mover when the opponent cannot move on a      *)
(* board that is not full (forced pass, or nobody can move).               *)
(***************************************************************************)
C20_ReturnedMovesFitReturnedState ==
    hist_len >= 1 =>
        /\ \A h \in {hist_tail[1]} :
           \A D \in {BB_discs(h.next_s)} :
               /\ h.next_legal_moves = CellsMask(RefLegal(D, h.next_s[2]))
               /\ h.next_player = h.next_s[2]
               /\ h.next_player =
                      IF RefLegal(D, 1 - h.s[2]) # {} \/ Occupied(D) = Cells
                      THEN 1 - h.s[2] ELSE h.s[2]
        /\ \A h \in {dhist_tail[1]} :
           \A D \in {SE_discs(h.next_s)} :
               /\ h.next_legal_moves = CellsGrid(RefLegal(D, h.next_s[0][0][2]))
               /\ h.next_player = h.next_s[0][0][2]
               /\ h.next_player =
                      IF RefLegal(D, 1 - h.s[0][0][2]) # {} \/ Occupied(D) = Cells
                      THEN 1 - h.s[0][0][2] ELSE h.s[0][0][2]

\* the last step was a forced pass: the turn came back to the mover, who has
\* legal cells, on a board that is not full
C20_Witness ==
    /\ hist_len >= 1
    /\ hist_tail[1].done = 0
    /\ hist_tail[1].next_s[2] = hist_tail[1].s[2]
    /\ dhist_tail[1].next_s[0][0][2] = dhist_tail[1].s[0][0][2]
    /\ hist_tail[1].next_legal_moves # {}
    /\ hist_tail[1].next_legal_moves =
           CellsMask(RefLegal(BB_discs(hist_tail[1].next_s), hist_tail[1].s[2]))
    /\ Occupied(BB_discs(hist_tail[1].next_s)) # Cells

(***************************************************************************)
(* C21.  Each legal step adds exactly one occupied cell, the cell chosen:  *)
(* the occupied set after the step is the occupied set before it plus that *)
(* cell, which was empty.  After k steps from reset the two counts of      *)
(* count_coins sum to 4 + k, in both engines; every record of the history, *)
(* a forced pass included, stands for one disc placed.                     *)
(***************************************************************************)
C21_StepAddsTheChosenCell ==
    /\ \A bw \in {BB_count_coins(s)} : bw[1] + bw[2] = 4 + hist_len
    /\ \A bw \in {SE_count_coins(ds)} : bw[1] + bw[2] = 4 + hist_len
    /\ hist_len >= 1 =>
           /\ \A h \in {hist_tail[1]} :
              \A before \in {Occupied(BB_discs(h.s))} :
                  /\ Cardinality(h.a) = 1
                  /\ \A c \in {x \in Cells : CellBit(x) \in h.a} :
                         /\ c \notin before
                         /\ Occupied(BB_discs(h.next_s)) = before \cup {c}
           /\ \A h \in {dhist_tail[1]} :
              \A before \in {Occupied(SE_discs(h.s))} :
              \A c \in {<<h.a \div Size, h.a % Size>>} :
                  /\ c \notin before
                  /\ Occupied(SE_discs(h.next_s)) = before \cup {c}

\* the last of at least three steps was a forced pass, and it placed a disc
C21_Witness ==
    /\ hist_len >= 3
    /\ hist_tail[1].done = 0
    /\ hist_tail[1].next_player = hist_tail[1].current_player
    /\ Cardinality(Occupied(BB_discs(s))) = 4 + hist_len
    /\ Cardinality(Occupied(SE_discs(ds))) = 4 + hist_len

(***************************************************************************)
(* C22.  Within one step the legal-move set is generated exactly once, for *)
(* the opponent, when the opponent has a legal move or the board is full   *)
(* after the move, and exactly twice, for the opponent and then for the    *)
(* mover, when the opponent has none and the board is not full: the        *)
(* full-board test comes before the second generation and prevents it.     *)
(***************************************************************************)
C22_ScansPerStep ==
    hist_len >= 1 =>
        /\ \A h \in {hist_tail[1]} :
           \A D \in {BB_discs(h.next_s)} :
               h.calls = IF RefLegal(D, 1 - h.s[2]) # {} \/ Occupied(D) = Cells
                         THEN 1 ELSE 2
        /\ \A h \in {dhist_tail[1]} :
           \A D \in {SE_discs(h.next_s)} :
               h.calls = IF RefLegal(D, 1 - h.s[0][0][2]) # {} \/ Occupied(D) = Cells
                         THEN 1 ELSE 2

\* the last step filled the board: one scan, which found nothing, and no second
C22_Witness ==
    /\ hist_len >= 1
    /\ Occupied(BB_discs(hist_tail[1].next_s)) = Cells
    /\ hist_tail[1].next_legal_moves = {}
    /\ hist_tail[1].calls = 1
    /\ dhist_tail[1].calls = 1
    /\ hist_tail[1].done = 1

(***************************************************************************)
(* C23.  For each of the eight directions, shifting a 64-bit cell set by   *)
(* the direction's bit shift and AND-ing with the direction's mask gives   *)
(* exactly the cells one step in that direction from a cell of the input   *)
(* that are on the board: nothing passes from one edge to the opposite     *)
(* edge or into the neighbouring row, and no bit at position 64 or above   *)
(* is left.  Both the dictionaries of __init__ and the constants written   *)
(* out in _legal_moves_helper are covered.                                 *)
(***************************************************************************)
\* the step on the board that each direction's name stands for
RefDelta(k) ==
    CASE k = "left"         -> <<0, -1>>
      [] k = "right"        -> <<0, 1>>
      [] k = "top"          -> <<-1, 0>>
      [] k = "bottom"       -> <<1, 0>>
      [] k = "right_top"    -> <<-1, 1>>
      [] k = "left_top"     -> <<-1, -1>>
      [] k = "right_bottom" -> <<1, 1>>
      [] k = "left_bottom"  -> <<1, -1>>

C23_ShiftStaysOnBoard ==
    shift_k # "none" =>
        \A out \in {CellsMask({Along(c, RefDelta(shift_k), 1) :
                                 c \in {x \in Cells : CellBit(x) \in shift_x}}
                              \cap Cells)} :
            /\ shift_out[1] = out
            /\ shift_out[2] = out
            /\ shift_out[1] \subseteq 0..(Size * Size - 1)

\* 'right' applied to a cell of the last column and a cell inside the board:
\* only the second one has a neighbour
C23_Witness ==
    /\ shift_k = "right"
    /\ shift_x = {CellBit(<<2, 7>>), CellBit(<<5, 3>>)}
    /\ shift_out[1] = {CellBit(<<5, 4>>)}
    /\ shift_out[2] = {CellBit(<<5, 4>>)}

(***************************************************************************)
(* C24.  In the history built by Game.play the done flag is 1 on the last  *)
(* record and 0 on every earlier record, and only the last record carries  *)
(* an outcome: the outcome field of an earlier record is none of the       *)
(* values that encode an outcome (0: side 0 wins, 1: side 1 wins, -1: tie).*)
(***************************************************************************)
C24_OnlyLastRecordHasOutcome ==
    pc = "finished" =>
        /\ hist_len = Len(hist_front) + 1
        /\ hist_tail[1].done = 1
        /\ hist_tail[1].winner \in {0, 1, -1}
        /\ \A i \in 1..Len(hist_front) :
               /\ hist_front[i].done = 0
               /\ hist_front[i].winner \notin {0, 1, -1}

(***************************************************************************)
(* C25.  In the history built by Game.play consecutive records chain: the  *)
(* prior state, legal-move set and mover of record i+1 are the resulting   *)
(* state, resulting legal-move set and next player of record i; the prior  *)
(* state of the first record is the reset position with side 1 to move.    *)
(***************************************************************************)
C25_RecordsChain ==
    hist_len >= 1 =>
        \A H \in {hist_front \o hist_tail} :
            /\ Len(H) = hist_len
            /\ BB_discs(H[1].s) = Discs({<<3, 4>>, <<4, 3>>}, {<<3, 3>>, <<4, 4>>})
            /\ H[1].s[2] = 1
            /\ H[1].current_player = 1
            /\ \A i \in 1..(Len(H) - 1) :
                   /\ H[i + 1].s = H[i].next_s
                   /\ H[i + 1].legal_moves = H[i].next_legal_moves
                   /\ H[i + 1].current_player = H[i].next_player

\* a finished game whose history holds a forced pass: some record names the
\* same side as mover and as next player, and a later record follows it
C25_Witness ==
    /\ pc = "finished"
    /\ hist_len >= 10
    /\ \E i \in 1..Len(hist_front) :
           /\ hist_front[i].next_player = hist_front[i].current_player
           /\ (hist_front \o hist_tail)[i + 1].current_player = hist_front[i].current_player

C27_TurnMarkerNeverWraps ==
    /\ ds[0][0][2] \in {0, 1}
    /\ \A c \in Cells : ds[c[1]][c[2]][2] = ds[0][0][2]
    /\ dhist_tail # <<>> =>
           \A h \in {dhist_tail[1]} :
               /\ h.flip = IF h.s[0][0][2] = 1 THEN 0 ELSE 1
               /\ h.flip # 255

(***************************************************************************)
(* C28.  Every occupancy mask and legal-move mask returned by reset and    *)
(* step of StateEnvBitBoard on reachable states is an integer in           *)
(* [0, 2^64): no left shift by 1, 7, 8 or 9 leaves a bit at position 64 or *)
(* above in a result, and board_notp - update_master never borrows, the    *)
(* flipped set being a subset of the opponent's discs.                     *)
(***************************************************************************)
C28_MasksFitIn64Bits ==
    /\ s[0] \cup s[1] \cup legal_moves \subseteq 0..(Size * Size - 1)
    /\ hist_len >= 1 =>
           \A h \in {hist_tail[1]} :
           \A board_notp \in {h.s[1 - h.s[2]]} :
           \A update_master \in {BB_update_master(h.s, h.a)} :
               /\ update_master \subseteq board_notp
               /\ h.next_s[1 - h.s[2]] = board_notp \ update_master
               /\ h.next_s[0] \cup h.next_s[1] \cup h.next_legal_moves
                      \subseteq 0..(Size * Size - 1)

\* the last step turned discs over on a board with a disc in the top row,
\* from which the shifts to the top push bits to positions 64 and above
C28_Witness ==
    /\ hist_len >= 1
    /\ \E b \in hist_tail[1].s[0] \cup hist_tail[1].s[1] : b >= Size * (Size - 1)
    /\ hist_tail[1].next_s[1 - hist_tail[1].s[2]] # hist_tail[1].s[1 - hist_tail[1].s[2]]
    /\ \E b \in legal_moves : b >= Size * (Size - 1)

C30_ConverterBitOrder ==
    pc = "converted" =>
        \A pos \in {conv_in[1]} :
            /\ conv_out[1] = {Size * Size - 1 - pos}
            /\ conv_out[3] = [row \in Rows |-> [col \in Rows |->
                                 IF row = pos \div Size /\ col = pos % Size
                                 THEN 1 ELSE 0]]
            /\ (conv_in[2] # pos) => (conv_out[2] # conv_out[1])

\* position 11, cell (1,3), is bit 52; position 58, cell (7,2), another bit
C30_Witness ==
    /\ pc = "converted"
    /\ conv_in = <<11, 58>>
    /\ conv_out[1] = {52}
    /\ conv_out[2] = {5}
    /\ conv_out[3][1][3] = 1
    /\ conv_out[3][3][1] = 0

(***************************************************************************)
(* C31.  create_board_reps returns 12 representations of a transition,     *)
(* the original and eleven transformed copies, without duplicates: no two  *)
(* of the 12 keys apply the same symmetry of the board, so for a board     *)
(* that no symmetry of the square maps to itself the 12 transformed        *)
(* states are pairwise different.                                          *)
(***************************************************************************)
\* the symmetries of the square other than the identity, as maps of cells
SquareSymmetries ==
    {[c \in Cells |-> <<c[2], Size - 1 - c[1]>>],
     [c \in Cells |-> <<Size - 1 - c[1], Size - 1 - c[2]>>],
     [c \in Cells |-> <<Size - 1 - c[2], c[1]>>],
     [c \in Cells |-> <<Size - 1 - c[1], c[2]>>],
     [c \in Cells |-> <<c[1], Size - 1 - c[2]>>],
     [c \in Cells |-> <<c[2], c[1]>>],
     [c \in Cells |-> <<Size - 1 - c[2], Size - 1 - c[1]>>]}

\* no symmetry of the square maps the discs of state st to themselves
WithoutSymmetry(st) ==
    \A d \in {BB_discs(st)} :
    \A m \in SquareSymmetries :
        \/ {m[c] : c \in d[0]} # d[0]
        \/ {m[c] : c \in d[1]} # d[1]

C31_TwelveDistinctRepresentations ==
    pc = "reps" =>
        /\ Cardinality(DOMAIN reps) = 12
        /\ WithoutSymmetry(reps["normal_bottom"].s) =>
               \A k1 \in DOMAIN reps : \A k2 \in DOMAIN reps :
                   (k1 # k2) => (reps[k1].s # reps[k2].s)

(***************************************************************************)
(* C32.  The rules commute with every transform T of create_board_reps:    *)
(* for every record of a game and every key, the entry is the record under *)
(* one symmetry T of the board; T(legal moves) is the legal-move set of    *)
(* T(state), T(action) is one cell of it, and step on T(state) with        *)
(* T(action) returns T(next state), T(next legal moves), the same next     *)
(* player and the same done flag.                                          *)
(***************************************************************************)
\* the mask of the cells that the cell map m sends the cells of mask to
MaskImage(m, mask) == {CellBit(m[c]) : c \in {x \in Cells : CellBit(x) \in mask}}

\* entry e is record h with every board moved by the cell map m
ImageRecord(m, h, e) ==
    /\ e.s[0] = MaskImage(m, h.s[0])
    /\ e.s[1] = MaskImage(m, h.s[1])
    /\ e.a = MaskImage(m, h.a)
    /\ e.legal_moves = MaskImage(m, h.legal_moves)
    /\ e.next_s[0] = MaskImage(m, h.next_s[0])
    /\ e.next_s[1] = MaskImage(m, h.next_s[1])
    /\ e.next_legal_moves = MaskImage(m, h.next_legal_moves)
    /\ e.s[2] = h.s[2]
    /\ e.next_s[2] = h.next_s[2]
    /\ <<e.current_player, e.next_player, e.done, e.winner>>
         = <<h.current_player, h.next_player, h.done, h.winner>>

C32_RulesCommuteWithTransforms ==
    pc = "reps" =>
        /\ DOMAIN reps = nd_trans_keys \cup {"normal_bottom"}
        /\ reps["normal_bottom"] = hist_entry(hist_tail[1])
        /\ \A k \in nd_trans_keys :
           \A e \in {reps[k]} :
               /\ \E m \in SquareSymmetries : ImageRecord(m, reps["normal_bottom"], e)
               /\ BB_legal_moves_helper(e.s) = e.legal_moves
               /\ Cardinality(e.a) = 1
               /\ e.a \subseteq e.legal_moves
               /\ \A r \in {BB_step(e.s, e.a)} :
                      /\ r.s_next = e.next_s
                      /\ r.legal_moves = e.next_legal_moves
                      /\ r.next_player = e.next_player
                      /\ r.done = e.done

\* the copies of a forced pass on a board without symmetry, the copy turned
\* a quarter differing from the record in state and action
C32_Witness ==
    /\ pc = "reps"
    /\ reps["normal_bottom"].done = 0
    /\ reps["normal_bottom"].next_player = reps["normal_bottom"].current_player
    /\ WithoutSymmetry(reps["normal_bottom"].s)
    /\ reps["normal_left"].s # reps["normal_bottom"].s
    /\ reps["normal_left"].a # reps["normal_bottom"].a
    /\ reps["normal_left"].next_player = reps["normal_left"].current_player
    /\ BB_step(reps["normal_left"].s, reps["normal_left"].a).s_next
         = reps["normal_left"].next_s

(***************************************************************************)
(* C33.  The eight unrolled blocks of _legal_moves_helper and of           *)
(* _get_next_board compute, for every state and action, what the loop      *)
(* over self._directions with self._bit_shift_fn and                       *)
(* self._incorrect_shift_mask computes: each block equals the pass of the  *)
(* loop for its direction, the eight directions are each covered once,     *)
(* and the legal-move mask and update_master are the same.                 *)
(***************************************************************************)
C33_UnrolledBlocksEqualGenericLoop ==
    /\ Len(directions_order) = Cardinality(directions)
    /\ {directions_order[i] : i \in 1..Len(directions_order)} = directions
    /\ (s # <<>>) =>
           \A q \in {0, 1} :
           \A e \in {BB_empty(s[q], s[1 - q])} :
               /\ BB_sweeps(s[q], s[1 - q], e) = generic_sweeps(s[q], s[1 - q], e)
               /\ \A k \in directions :
                      /\ unrolled_sweep(k, {}, s[q], s[1 - q], e)
                           = generic_sweep(k, {}, s[q], s[1 - q], e)
                      /\ unrolled_shift_and_mask(k, s[q]) = shift_and_mask(k, s[q])
    /\ (hist_len >= 1) =>
           \A h \in {hist_tail[1]} :
           \A q \in {h.s[2]} :
               /\ BB_update_master(h.s, h.a)
                    = generic_captures(h.a, h.s[q], h.s[BB_other(q)])
               /\ \A k \in directions :
                      unrolled_capture(k, {}, h.a, h.s[q], h.s[BB_other(q)])
                        = generic_capture(k, {}, h.a, h.s[q], h.s[BB_other(q)])

\* a move that turned discs over in two directions at least, one of them a
\* diagonal, on a board where the mover to come has moves in three or more
C33_Witness ==
    /\ hist_len >= 1
    /\ pc = "play"
    /\ \A h \in {hist_tail[1]} :
       \A q \in {h.s[2]} :
           /\ Cardinality({k \in directions :
                  generic_capture(k, {}, h.a, h.s[q], h.s[BB_other(q)]) # {}}) >= 2
           /\ \E k \in {"right_top", "left_top", "right_bottom", "left_bottom"} :
                  unrolled_capture(k, {}, h.a, h.s[q], h.s[BB_other(q)]) # {}
    /\ \A q \in {s[2]} :
           Cardinality({k \in directions :
               unrolled_sweep(k, {}, s[q], s[BB_other(q)],
                              BB_empty(s[q], s[BB_other(q)])) # {}}) >= 3

====
